---- MODULE Spec2Model ----
(***************************************************************************)
(* Veil: recovery of a validated dashboard payload from backend text.      *)
(*                                                                         *)
(* Part 1  JSON values, strings, the schema normalizer and the validator   *)
(*         (domain/dashboard.ts).                                          *)
(* Part 2  The request path: command bus, task queue, reading pipeline,    *)
(*         repository and model adapter.                                   *)
(***************************************************************************)
EXTENDS Integers, Sequences, FiniteSets, TLC

(***************************************************************************)
(* JSON values as JSON.parse returns them.  Every value is a record        *)
(* [t, v]: t is the JavaScript type tag, v the content.                    *)
(*   "undef"  a property that is absent (reading it gives undefined)       *)
(*   "null"   null                                                         *)
(*   "bool"   v \in BOOLEAN                                                *)
(*   "num"    a finite number, v its value in tenths (v = 505 is 50.5)     *)
(*   "inf"    a number that is not finite (JSON.parse("1e999"))            *)
(*   "str"    v a sequence of characters                                   *)
(*   "arr"    v a sequence of values                                       *)
(*   "obj"    v a function from property names to values                   *)
(* A character is a one-letter string; "LF" is the line feed, and the      *)
(* non-ASCII characters of the stub texts have names of their own.         *)
(***************************************************************************)
Undef == [t |-> "undef", v |-> 0]
Null == [t |-> "null", v |-> 0]
Inf == [t |-> "inf", v |-> 0]
Num(n) == [t |-> "num", v |-> n * 10]
Tenths(n) == [t |-> "num", v |-> n]
Str(s) == [t |-> "str", v |-> s]
Arr(a) == [t |-> "arr", v |-> a]
Obj(f) == [t |-> "obj", v |-> f]

\* property read: obj.key (undefined when absent, and on arrays, which JSON
\* never gives named properties)
Get(o, k) == IF o.t = "obj" /\ k \in DOMAIN o.v THEN o.v[k] ELSE Undef

\* property write: obj.key = val
Put(o, k, val) ==
  IF o.t = "obj"
  THEN Obj([x \in (DOMAIN o.v) \cup {k} |-> IF x = k THEN val ELSE o.v[x]])
  ELSE o

isRecord(value) == value.t \in {"obj", "arr"}
isArray(value) == value.t = "arr"
isString(value) == value.t = "str"
isNumber(value) == value.t = "num"
isInteger(value) == isNumber(value) /\ value.v % 10 = 0
inRange(value, min, max) == value.v >= min * 10 /\ value.v <= max * 10
ensureArray(value, predicate(_)) ==
  isArray(value) /\ \A i \in 1..Len(value.v) : predicate(value.v[i])

(***************************************************************************)
(* Strings                                                                 *)
(***************************************************************************)
Upper == <<"A","B","C","D","E","F","G","H","I","J","K","L","M",
           "N","O","P","Q","R","S","T","U","V","W","X","Y","Z">>
Lower == <<"a","b","c","d","e","f","g","h","i","j","k","l","m",
           "n","o","p","q","r","s","t","u","v","w","x","y","z">>
Digits == <<"0","1","2","3","4","5","6","7","8","9">>
Whitespace == {" ", "LF", "CR", "TAB"}
LineBreaks == {"LF", "CR"}

IndexIn(c, seq) == IF \E i \in 1..Len(seq) : seq[i] = c
                   THEN CHOOSE i \in 1..Len(seq) : seq[i] = c
                   ELSE 0

toLowerCase(s) ==
  [i \in 1..Len(s) |-> IF IndexIn(s[i], Upper) > 0 THEN Lower[IndexIn(s[i], Upper)] ELSE s[i]]

\* String.prototype.includes
includes(s, sub) ==
  \E i \in 0..(Len(s) - Len(sub)) : \A j \in 1..Len(sub) : s[i + j] = sub[j]

\* String.prototype.trim
trim(s) ==
  IF \A i \in 1..Len(s) : s[i] \in Whitespace
  THEN <<>>
  ELSE LET first == CHOOSE i \in 1..Len(s) :
                      s[i] \notin Whitespace /\ \A j \in 1..(i - 1) : s[j] \in Whitespace
           last == CHOOSE i \in 1..Len(s) :
                      s[i] \notin Whitespace /\ \A j \in (i + 1)..Len(s) : s[j] \in Whitespace
       IN SubSeq(s, first, last)

hasLineBreak(s) == \E i \in 1..Len(s) : s[i] \in LineBreaks

\* the digits of s read as a decimal numeral
RECURSIVE DigitsValue(_)
DigitsValue(s) ==
  IF s = <<>> THEN 0
  ELSE 10 * DigitsValue(SubSeq(s, 1, Len(s) - 1)) + (IndexIn(s[Len(s)], Digits) - 1)

allDigits(s) == \A i \in 1..Len(s) : IndexIn(s[i], Digits) > 0

\* the value of an unsigned numeral: digits, and at most one digit after a
\* decimal point; [nan |-> BOOLEAN, v |-> value in tenths]
UnsignedNumber(whole, frac) ==
  IF /\ allDigits(whole) /\ allDigits(frac)
     /\ Len(whole) + Len(frac) > 0
     /\ Len(frac) <= 1
  THEN [nan |-> FALSE, v |-> 10 * DigitsValue(whole) + DigitsValue(frac)]
  ELSE [nan |-> TRUE, v |-> 0]

SplitNumber(mag, dot) ==
  IF dot = 0 THEN UnsignedNumber(mag, <<>>)
  ELSE UnsignedNumber(SubSeq(mag, 1, dot - 1), SubSeq(mag, dot + 1, Len(mag)))

Negated(number) == [nan |-> number.nan, v |-> 0 - number.v]

TrimmedToNumber(body) ==
  IF body = <<>> THEN [nan |-> FALSE, v |-> 0]
  ELSE IF body[1] = "-"
       THEN Negated(SplitNumber(Tail(body), IndexIn(".", Tail(body))))
       ELSE SplitNumber(body, IndexIn(".", body))

\* Number(string) for the numerals of the model: optional white space, an
\* optional minus sign, digits, and at most one digit after a decimal point;
\* the empty and the blank string are 0; anything else is NaN.
\* The result is [nan |-> BOOLEAN, v |-> value in tenths].
StringToNumber(s) == TrimmedToNumber(trim(s))

\* Math.round on a value in tenths: the nearest integer, halves rounded up
MathRound(v) == (v + 5) \div 10
Min(a, b) == IF a < b THEN a ELSE b
Max(a, b) == IF a > b THEN a ELSE b

(***************************************************************************)
(* Schema constants (domain/dashboard.ts)                                  *)
(***************************************************************************)
S_Focus == <<"F","o","c","u","s">>
S_Relationships == <<"R","e","l","a","t","i","o","n","s","h","i","p","s">>
S_Action == <<"A","c","t","i","o","n">>
S_Reflection == <<"R","e","f","l","e","c","t","i","o","n">>
S_focus == <<"f","o","c","u","s">>
S_relationships == <<"r","e","l","a","t","i","o","n","s","h","i","p","s">>
S_action == <<"a","c","t","i","o","n">>
S_reflection == <<"r","e","f","l","e","c","t","i","o","n">>
S_soft == <<"s","o","f","t">>
S_neutral == <<"n","e","u","t","r","a","l">>
S_intense == <<"i","n","t","e","n","s","e">>
S_gentle == <<"g","e","n","t","l","e">>
S_hope == <<"h","o","p","e">>
S_uplift == <<"u","p","l","i","f","t">>
S_strong == <<"s","t","r","o","n","g">>
S_volatile == <<"v","o","l","a","t","i","l","e">>
S_disrupt == <<"d","i","s","r","u","p","t">>
S_Q1 == <<"Q","1">>
S_Q2 == <<"Q","2">>
S_Q3 == <<"Q","3">>
S_Q4 == <<"Q","4">>
S_today == <<"t","o","d","a","y">>
Empty == <<>>

CanonicalTitles == <<S_Focus, S_Relationships, S_Action, S_Reflection>>
CanonicalQuarters == <<S_Q1, S_Q2, S_Q3, S_Q4>>
sectionTitles == {S_Focus, S_Relationships, S_Action, S_Reflection}
transitTones == {S_soft, S_neutral, S_intense}
quarterLabels == {S_Q1, S_Q2, S_Q3, S_Q4}
PLACEHOLDER_TOKEN == <<"_","_","F","I","L","L">>

RECURSIVE containsUnresolvedPlaceholders(_)
containsUnresolvedPlaceholders(value) ==
  IF value.t = "str" THEN includes(value.v, PLACEHOLDER_TOKEN)
  ELSE IF value.t = "arr"
       THEN \E i \in 1..Len(value.v) : containsUnresolvedPlaceholders(value.v[i])
  ELSE IF value.t = "obj"
       THEN \E k \in DOMAIN value.v : containsUnresolvedPlaceholders(value.v[k])
  ELSE FALSE

(***************************************************************************)
(* Schema normalizer                                                       *)
(***************************************************************************)
\* coerceNumber: [null |-> BOOLEAN, v |-> tenths]
coerceNumber(value) ==
  IF value.t = "num" THEN [null |-> FALSE, v |-> value.v]
  ELSE IF value.t = "str"
       THEN LET parsed == StringToNumber(value.v)
            IN [null |-> parsed.nan, v |-> parsed.v]
  ELSE [null |-> TRUE, v |-> 0]

\* clampInt: [null |-> BOOLEAN, v |-> integer]
clampInt(value, min, max) ==
  LET numeric == coerceNumber(value)
  IN IF numeric.null THEN [null |-> TRUE, v |-> 0]
     ELSE [null |-> FALSE, v |-> Min(max, Max(min, MathRound(numeric.v)))]

\* normalizeTransitTone: [null |-> BOOLEAN, v |-> string]
normalizeTransitTone(value) ==
  IF ~isString(value) THEN [null |-> TRUE, v |-> Empty]
  ELSE LET normalized == toLowerCase(value.v)
       IN IF normalized \in transitTones THEN [null |-> FALSE, v |-> normalized]
          ELSE IF \/ includes(normalized, S_soft) \/ includes(normalized, S_gentle)
                  \/ includes(normalized, S_hope) \/ includes(normalized, S_uplift)
               THEN [null |-> FALSE, v |-> S_soft]
          ELSE IF \/ includes(normalized, S_intense) \/ includes(normalized, S_strong)
                  \/ includes(normalized, S_volatile) \/ includes(normalized, S_disrupt)
               THEN [null |-> FALSE, v |-> S_intense]
          ELSE [null |-> FALSE, v |-> S_neutral]

\* obj.key = clampInt(obj.key, min, max) unless the clamp gives null
ClampField(o, k, min, max) ==
  LET c == clampInt(Get(o, k), min, max)
  IN IF c.null THEN o ELSE Put(o, k, Num(c.v))

\* value if it is a string, else ""
StringOrEmpty(value) == IF isString(value) THEN value ELSE Str(Empty)

\* array.slice(0, n)
Slice(a, n) == SubSeq(a, 1, Min(n, Len(a)))

\* [...array.slice(0, n).map(fix), ...n - array.length copies of pad]
PadTo(a, n, fix(_), pad) ==
  [i \in 1..Max(n, Min(n, Len(a))) |-> IF i <= Len(a) THEN fix(a[i]) ELSE pad]

normalizeBestHour(entry) ==
  IF ~isRecord(entry)
  THEN Obj([label |-> Str(Empty), start |-> Str(Empty), end |-> Str(Empty)])
  ELSE Obj([label |-> StringOrEmpty(Get(entry, "label")),
            start |-> StringOrEmpty(Get(entry, "start")),
            end |-> StringOrEmpty(Get(entry, "end"))])

\* normalizeTitle: a canonical title, or <<>> for null
normalizeTitle(value) ==
  IF ~isString(value) THEN Empty
  ELSE LET trimmed == toLowerCase(trim(value.v))
       IN IF trimmed = S_focus THEN S_Focus
          ELSE IF trimmed = S_relationships THEN S_Relationships
          ELSE IF trimmed = S_action THEN S_Action
          ELSE IF trimmed = S_reflection THEN S_Reflection
          ELSE Empty

\* byTitle.get(title) after the loop over today.sections: the body of the
\* last entry that is a record with that title, "" when the entry's body is
\* no string, and absent (<< >>) when there is no such entry
SectionBody(sections, title) ==
  LET hits == {i \in 1..Len(sections) :
                 isRecord(sections[i]) /\ normalizeTitle(Get(sections[i], "title")) = title}
  IN IF hits = {} THEN Str(Empty)
     ELSE LET last == CHOOSE i \in hits : \A j \in hits : j <= i
          IN StringOrEmpty(Get(sections[last], "body"))

\* A variant that keeps the entries as the candidate lists them; the
\* properties of the accepted sections are compared against it.
sectionsAsGiven(sections) == sections

normalizeSections(sections) ==
  [i \in 1..4 |-> Obj([title |-> Str(CanonicalTitles[i]),
                        body |-> SectionBody(sections, CanonicalTitles[i])])]

normalizeTransit(transit) ==
  IF ~isRecord(transit)
  THEN Obj([title |-> Str(Empty), tone |-> Str(S_neutral), meaning |-> Str(Empty)])
  ELSE LET tone == normalizeTransitTone(Get(transit, "tone"))
       IN Obj([title |-> StringOrEmpty(Get(transit, "title")),
               tone |-> Str(IF tone.null THEN S_neutral ELSE tone.v),
               meaning |-> StringOrEmpty(Get(transit, "meaning"))])

normalizeKeyDate(entry) ==
  IF ~isRecord(entry)
  THEN Obj([dateLabel |-> Str(Empty), title |-> Str(Empty), note |-> Str(Empty)])
  ELSE Obj([dateLabel |-> StringOrEmpty(Get(entry, "dateLabel")),
            title |-> StringOrEmpty(Get(entry, "title")),
            note |-> StringOrEmpty(Get(entry, "note"))])

\* byLabel.get(label) ?? { label, focus: "" }
normalizeQuarter(quarters, label) ==
  LET hits == {i \in 1..Len(quarters) :
                 /\ isRecord(quarters[i])
                 /\ isString(Get(quarters[i], "label"))
                 /\ isString(Get(quarters[i], "focus"))
                 /\ Get(quarters[i], "label").v = label}
  IN IF hits = {} THEN Obj([label |-> Str(label), focus |-> Str(Empty)])
     ELSE LET last == CHOOSE i \in hits : \A j \in hits : j <= i
          IN Obj([label |-> Get(quarters[last], "label"),
                  focus |-> Get(quarters[last], "focus")])

Identity(x) == x

\* ratings.love, work, money and health clamped to 0..5
normalizeRatings(today) ==
  IF isRecord(Get(today, "ratings"))
  THEN Put(today, "ratings",
           ClampField(ClampField(ClampField(ClampField(Get(today, "ratings"),
             "love", 0, 5), "work", 0, 5), "money", 0, 5), "health", 0, 5))
  ELSE today

\* lucky.number clamped to 0..999
normalizeLucky(today) ==
  IF isRecord(Get(today, "lucky"))
  THEN Put(today, "lucky", ClampField(Get(today, "lucky"), "number", 0, 999))
  ELSE today

\* bestHours cut or padded to 2 entries
normalizeBestHours(today) ==
  IF isArray(Get(today, "bestHours"))
  THEN Put(today, "bestHours",
           Arr(PadTo(Get(today, "bestHours").v, 2, normalizeBestHour, normalizeBestHour(Null))))
  ELSE today

\* sections rebuilt as the four canonical ones
normalizeTodaySections(today) ==
  IF isArray(Get(today, "sections"))
  THEN Put(today, "sections", Arr(normalizeSections(Get(today, "sections").v)))
  ELSE today

normalizeToday(today) ==
  normalizeTodaySections(normalizeBestHours(normalizeLucky(normalizeRatings(
    ClampField(today, "energyScore", 0, 100)))))

normalizeCosmicWeather(cw) ==
  LET transits == Get(cw, "transits")
  IN IF isArray(transits)
     THEN Put(cw, "transits",
              Arr([i \in 1..Min(2, Len(transits.v)) |-> normalizeTransit(transits.v[i])]))
     ELSE cw

normalizeCompatibility(c) ==
  LET flow == Get(c, "bestFlowWith")
      c1 == IF isArray(flow)
            THEN Put(c, "bestFlowWith", Arr(PadTo(flow.v, 2, StringOrEmpty, Str(Empty))))
            ELSE c
      gently == Get(c1, "handleGentlyWith")
  IN IF isArray(gently)
     THEN Put(c1, "handleGentlyWith", Arr(PadTo(gently.v, 1, StringOrEmpty, Str(Empty))))
     ELSE c1

normalizeJournalRitual(j) ==
  LET starters == Get(j, "starters")
  IN IF isArray(starters)
     THEN Put(j, "starters", Arr(PadTo(starters.v, 3, StringOrEmpty, Str(Empty))))
     ELSE j

normalizeMonth(m) ==
  LET keyDates == Get(m, "keyDates")
  IN IF isArray(keyDates)
     THEN Put(m, "keyDates",
              Arr(PadTo(keyDates.v, 3, normalizeKeyDate, normalizeKeyDate(Null))))
     ELSE m

normalizeYear(y) ==
  LET quarters == Get(y, "quarters")
      y1 == IF isArray(quarters)
            THEN Put(y, "quarters",
                     Arr([i \in 1..4 |-> normalizeQuarter(quarters.v, CanonicalQuarters[i])]))
            ELSE y
      powerMonths == Get(y1, "powerMonths")
  IN IF isArray(powerMonths)
     THEN Put(y1, "powerMonths", Arr(PadTo(powerMonths.v, 2, Identity, Str(Empty))))
     ELSE y1

\* dashboard.key = f(dashboard.key) when dashboard.key is a record
NormalizeSection(d, k, f(_)) ==
  IF isRecord(Get(d, k)) THEN Put(d, k, f(Get(d, k))) ELSE d

normalizeDashboard(raw) ==
  IF ~isRecord(raw) THEN raw
  ELSE NormalizeSection(
         NormalizeSection(
           NormalizeSection(
             NormalizeSection(
               NormalizeSection(
                 NormalizeSection(raw, "today", normalizeToday),
                 "cosmicWeather", normalizeCosmicWeather),
               "compatibility", normalizeCompatibility),
             "journalRitual", normalizeJournalRitual),
           "month", normalizeMonth),
         "year", normalizeYear)

(***************************************************************************)
(* Schema validator                                                        *)
(***************************************************************************)
E_root == <<"P","a","y","l","o","a","d"," ","r","o","o","t"," ","m","u","s","t"," ","b","e"," ","a","n"," ","o","b","j","e","c","t",".">>
E_placeholders == <<"P","a","y","l","o","a","d"," ","c","o","n","t","a","i","n","s"," ","u","n","r","e","s","o","l","v","e","d"," ","p","l","a","c","e","h","o","l","d","e","r","s",".">>
E_meta == <<"P","a","y","l","o","a","d"," ","m","e","t","a"," ","i","s"," ","m","i","s","s","i","n","g"," ","r","e","q","u","i","r","e","d"," ","f","i","e","l","d","s",".">>
E_tabs == <<"P","a","y","l","o","a","d"," ","t","a","b","s",".","a","c","t","i","v","e","D","e","f","a","u","l","t"," ","m","u","s","t"," ","b","e"," ","\"","t","o","d","a","y","\"",".">>
E_todayMissing == <<"P","a","y","l","o","a","d"," ","t","o","d","a","y"," ","i","s"," ","m","i","s","s","i","n","g",".">>
E_todayFields == <<"P","a","y","l","o","a","d"," ","t","o","d","a","y"," ","f","i","e","l","d","s"," ","a","r","e"," ","i","n","v","a","l","i","d",".">>
E_bestHours == <<"P","a","y","l","o","a","d"," ","t","o","d","a","y",".","b","e","s","t","H","o","u","r","s"," ","m","u","s","t"," ","c","o","n","t","a","i","n"," ","e","x","a","c","t","l","y"," ","2"," ","i","t","e","m","s",".">>
E_ratings == <<"P","a","y","l","o","a","d"," ","t","o","d","a","y",".","r","a","t","i","n","g","s"," ","m","u","s","t"," ","b","e"," ","0","ENDASH","5"," ","i","n","t","e","g","e","r","s",".">>
E_lucky == <<"P","a","y","l","o","a","d"," ","t","o","d","a","y",".","l","u","c","k","y"," ","i","s"," ","i","n","v","a","l","i","d",".">>
E_doDont == <<"P","a","y","l","o","a","d"," ","t","o","d","a","y",".","d","o","D","o","n","t"," ","i","s"," ","i","n","v","a","l","i","d",".">>
E_sections == <<"P","a","y","l","o","a","d"," ","t","o","d","a","y",".","s","e","c","t","i","o","n","s"," ","i","s"," ","i","n","v","a","l","i","d",".">>
E_cosmicMissing == <<"P","a","y","l","o","a","d"," ","c","o","s","m","i","c","W","e","a","t","h","e","r"," ","i","s"," ","m","i","s","s","i","n","g",".">>
E_moon == <<"P","a","y","l","o","a","d"," ","c","o","s","m","i","c","W","e","a","t","h","e","r",".","m","o","o","n"," ","i","s"," ","i","n","v","a","l","i","d",".">>
E_transits == <<"P","a","y","l","o","a","d"," ","c","o","s","m","i","c","W","e","a","t","h","e","r",".","t","r","a","n","s","i","t","s"," ","i","s"," ","i","n","v","a","l","i","d",".">>
E_affects == <<"P","a","y","l","o","a","d"," ","c","o","s","m","i","c","W","e","a","t","h","e","r",".","a","f","f","e","c","t","s","T","o","d","a","y"," ","i","s"," ","i","n","v","a","l","i","d",".">>
E_compatMissing == <<"P","a","y","l","o","a","d"," ","c","o","m","p","a","t","i","b","i","l","i","t","y"," ","i","s"," ","m","i","s","s","i","n","g",".">>
E_compatSigns == <<"P","a","y","l","o","a","d"," ","c","o","m","p","a","t","i","b","i","l","i","t","y"," ","s","i","g","n","s"," ","a","r","e"," ","i","n","v","a","l","i","d",".">>
E_tips == <<"P","a","y","l","o","a","d"," ","c","o","m","p","a","t","i","b","i","l","i","t","y",".","t","i","p","s"," ","i","s"," ","i","n","v","a","l","i","d",".">>
E_journal == <<"P","a","y","l","o","a","d"," ","j","o","u","r","n","a","l","R","i","t","u","a","l"," ","i","s"," ","i","n","v","a","l","i","d",".">>
E_bestDay == <<"P","a","y","l","o","a","d"," ","j","o","u","r","n","a","l","R","i","t","u","a","l",".","b","e","s","t","D","a","y","F","o","r","D","e","c","i","s","i","o","n","s"," ","i","s"," ","i","n","v","a","l","i","d",".">>
E_weekMissing == <<"P","a","y","l","o","a","d"," ","w","e","e","k"," ","i","s"," ","m","i","s","s","i","n","g",".">>
E_arc == <<"P","a","y","l","o","a","d"," ","w","e","e","k",".","a","r","c"," ","i","s"," ","i","n","v","a","l","i","d",".">>
E_weekKeys == <<"P","a","y","l","o","a","d"," ","w","e","e","k"," ","k","e","y"," ","i","t","e","m","s"," ","a","r","e"," ","i","n","v","a","l","i","d",".">>
E_bestDayFor == <<"P","a","y","l","o","a","d"," ","w","e","e","k",".","b","e","s","t","D","a","y","F","o","r"," ","i","s"," ","i","n","v","a","l","i","d",".">>
E_month == <<"P","a","y","l","o","a","d"," ","m","o","n","t","h"," ","i","s"," ","i","n","v","a","l","i","d",".">>
E_keyDates == <<"P","a","y","l","o","a","d"," ","m","o","n","t","h",".","k","e","y","D","a","t","e","s"," ","m","u","s","t"," ","c","o","n","t","a","i","n"," ","3"," ","i","t","e","m","s",".">>
E_moons == <<"P","a","y","l","o","a","d"," ","m","o","n","t","h"," ","m","o","o","n"," ","e","n","t","r","i","e","s"," ","a","r","e"," ","i","n","v","a","l","i","d",".">>
E_year == <<"P","a","y","l","o","a","d"," ","y","e","a","r"," ","i","s"," ","i","n","v","a","l","i","d",".">>
E_quarters == <<"P","a","y","l","o","a","d"," ","y","e","a","r",".","q","u","a","r","t","e","r","s"," ","m","u","s","t"," ","c","o","n","t","a","i","n"," ","4"," ","l","a","b","e","l","e","d"," ","i","t","e","m","s",".">>
E_powerMonths == <<"P","a","y","l","o","a","d"," ","y","e","a","r",".","p","o","w","e","r","M","o","n","t","h","s"," ","i","s"," ","i","n","v","a","l","i","d",".">>
E_challenge == <<"P","a","y","l","o","a","d"," ","y","e","a","r",".","c","h","a","l","l","e","n","g","e","M","o","n","t","h"," ","i","s"," ","i","n","v","a","l","i","d",".">>

errorResult(message) == [valid |-> FALSE, error |-> message, payload |-> Null]
validResult(raw) == [valid |-> TRUE, error |-> Empty, payload |-> raw]

\* every named property of o is a string
AllStrings(o, keys) == \A k \in keys : isString(Get(o, k))

isBestHour(item) == isRecord(item) /\ AllStrings(item, {"label", "start", "end"})
isSection(item) == isRecord(item) /\ AllStrings(item, {"title", "body"})
isTransit(item) == isRecord(item) /\ AllStrings(item, {"title", "tone", "meaning"})
isKeyDate(item) == isRecord(item) /\ AllStrings(item, {"dateLabel", "title", "note"})
isQuarter(item) == isRecord(item) /\ AllStrings(item, {"label", "focus"})

\* the checks of validateDashboardPayload in source order: <<failed, message>>
ValidationChecks(raw) ==
  LET meta == Get(raw, "meta")
      tabs == Get(raw, "tabs")
      today == Get(raw, "today")
      ratings == Get(today, "ratings")
      lucky == Get(today, "lucky")
      doDont == Get(today, "doDont")
      cosmicWeather == Get(raw, "cosmicWeather")
      moon == Get(cosmicWeather, "moon")
      compatibility == Get(raw, "compatibility")
      tips == Get(compatibility, "tips")
      journalRitual == Get(raw, "journalRitual")
      bestDay == Get(journalRitual, "bestDayForDecisions")
      week == Get(raw, "week")
      arc == Get(week, "arc")
      bestDayFor == Get(week, "bestDayFor")
      month == Get(raw, "month")
      newMoon == Get(month, "newMoon")
      fullMoon == Get(month, "fullMoon")
      year == Get(raw, "year")
      challenge == Get(year, "challengeMonth")
  IN <<
    <<~isRecord(raw), E_root>>,
    <<containsUnresolvedPlaceholders(raw), E_placeholders>>,
    <<\/ ~isRecord(meta)
      \/ ~AllStrings(meta, {"dateISO", "localeDateLabel", "generatedAtISO", "sign", "name"}),
      E_meta>>,
    <<\/ ~isRecord(tabs)
      \/ ~isString(Get(tabs, "activeDefault"))
      \/ Get(tabs, "activeDefault").v # S_today,
      E_tabs>>,
    <<~isRecord(today), E_todayMissing>>,
    <<\/ ~AllStrings(today, {"headline", "subhead", "theme"})
      \/ ~isNumber(Get(today, "energyScore"))
      \/ ~inRange(Get(today, "energyScore"), 0, 100),
      E_todayFields>>,
    <<\/ ~ensureArray(Get(today, "bestHours"), isBestHour)
      \/ Len(Get(today, "bestHours").v) # 2,
      E_bestHours>>,
    <<\/ ~isRecord(ratings)
      \/ \E k \in {"love", "work", "money", "health"} : ~isInteger(Get(ratings, k))
      \/ \E k \in {"love", "work", "money", "health"} : ~inRange(Get(ratings, k), 0, 5),
      E_ratings>>,
    <<\/ ~isRecord(lucky)
      \/ ~isString(Get(lucky, "color"))
      \/ ~isInteger(Get(lucky, "number"))
      \/ ~isString(Get(lucky, "symbol")),
      E_lucky>>,
    <<~isRecord(doDont) \/ ~AllStrings(doDont, {"do", "dont"}), E_doDont>>,
    <<\/ ~ensureArray(Get(today, "sections"), isSection)
      \/ Len(Get(today, "sections").v) = 0
      \/ \E i \in 1..Len(Get(today, "sections").v) :
           Get(Get(today, "sections").v[i], "title").v \notin sectionTitles,
      E_sections>>,
    <<~isRecord(cosmicWeather), E_cosmicMissing>>,
    <<~isRecord(moon) \/ ~AllStrings(moon, {"phase", "sign"}), E_moon>>,
    <<\/ ~ensureArray(Get(cosmicWeather, "transits"), isTransit)
      \/ Len(Get(cosmicWeather, "transits").v) > 2
      \/ \E i \in 1..Len(Get(cosmicWeather, "transits").v) :
           Get(Get(cosmicWeather, "transits").v[i], "tone").v \notin transitTones,
      E_transits>>,
    <<~isString(Get(cosmicWeather, "affectsToday")), E_affects>>,
    <<~isRecord(compatibility), E_compatMissing>>,
    <<\/ ~ensureArray(Get(compatibility, "bestFlowWith"), isString)
      \/ Len(Get(compatibility, "bestFlowWith").v) # 2
      \/ ~ensureArray(Get(compatibility, "handleGentlyWith"), isString)
      \/ Len(Get(compatibility, "handleGentlyWith").v) # 1,
      E_compatSigns>>,
    <<~isRecord(tips) \/ ~AllStrings(tips, {"conflict", "affection"}), E_tips>>,
    <<\/ ~isRecord(journalRitual)
      \/ ~isString(Get(journalRitual, "prompt"))
      \/ ~ensureArray(Get(journalRitual, "starters"), isString)
      \/ ~isString(Get(journalRitual, "mantra"))
      \/ ~isString(Get(journalRitual, "ritual")),
      E_journal>>,
    <<~isRecord(bestDay) \/ ~AllStrings(bestDay, {"dayLabel", "reason"}), E_bestDay>>,
    <<~isRecord(week), E_weekMissing>>,
    <<~isRecord(arc) \/ ~AllStrings(arc, {"start", "midweek", "weekend"}), E_arc>>,
    <<~AllStrings(week, {"keyOpportunity", "keyCaution"}), E_weekKeys>>,
    <<\/ ~isRecord(bestDayFor)
      \/ ~AllStrings(bestDayFor, {"decisions", "conversations", "rest"}),
      E_bestDayFor>>,
    <<~isRecord(month) \/ ~AllStrings(month, {"theme", "oneThing"}), E_month>>,
    <<\/ ~ensureArray(Get(month, "keyDates"), isKeyDate)
      \/ Len(Get(month, "keyDates").v) # 3,
      E_keyDates>>,
    <<\/ ~isRecord(newMoon) \/ ~AllStrings(newMoon, {"dateLabel", "intention"})
      \/ ~isRecord(fullMoon) \/ ~AllStrings(fullMoon, {"dateLabel", "release"}),
      E_moons>>,
    <<~isRecord(year) \/ ~isString(Get(year, "headline")), E_year>>,
    <<\/ ~ensureArray(Get(year, "quarters"), isQuarter)
      \/ Len(Get(year, "quarters").v) # 4
      \/ \E i \in 1..Len(Get(year, "quarters").v) :
           Get(Get(year, "quarters").v[i], "label").v \notin quarterLabels,
      E_quarters>>,
    <<\/ ~ensureArray(Get(year, "powerMonths"), isString)
      \/ Len(Get(year, "powerMonths").v) = 0,
      E_powerMonths>>,
    <<~isRecord(challenge) \/ ~AllStrings(challenge, {"month", "guidance"}), E_challenge>>
  >>

\* validateDashboardPayload: the first failed check's message, or the payload
\* the result for the checks in source order: the first that failed returns
firstFailure(checks, raw) ==
  IF \A i \in 1..Len(checks) : ~checks[i][1] THEN validResult(raw)
  ELSE errorResult(checks[CHOOSE i \in 1..Len(checks) :
                            checks[i][1] /\ \A j \in 1..(i - 1) : ~checks[j][1]][2])

validateDashboardPayload(raw) == firstFailure(ValidationChecks(raw), raw)

(***************************************************************************)
(* Payloads                                                                *)
(***************************************************************************)
\* The payload the stub generator serializes, for the profile Sean,
\* 1974-07-23, Serene, The Dreamer on 2024-05-01, with the first candidate of
\* every pick.
StubPayload ==
  Obj([
    meta |-> Obj([
      dateISO |-> Str(<<"2","0","2","4","-","0","5","-","0","1">>),
      localeDateLabel |-> Str(<<"W","e","d","n","e","s","d","a","y",","," ","M","a","y"," ","1">>),
      generatedAtISO |-> Str(<<"2","0","2","4","-","0","5","-","0","1","T","0","9",":","0","0",":","0","0",".","0","0","0","Z">>),
      sign |-> Str(<<"L","e","o">>),
      name |-> Str(<<"S","e","a","n">>)]),
    tabs |-> Obj([
      activeDefault |-> Str(<<"t","o","d","a","y">>)]),
    today |-> Obj([
      headline |-> Str(<<"S","o","f","t"," ","f","o","c","u","s",","," ","c","l","e","a","r"," ","i","n","t","e","n","t","i","o","n">>),
      subhead |-> Str(<<"T","h","e"," ","d","a","y"," ","o","p","e","n","s"," ","w","i","t","h"," ","a"," ","s","e","r","e","n","e"," ","c","u","r","r","e","n","t"," ","t","h","a","t"," ","i","n","v","i","t","e","s"," ","g","e","n","t","l","e","r"," ","c","h","o","i","c","e","s","."," ","A","s"," ","L","e","o",","," ","y","o","u","r"," ","t","h","e"," ","d","r","e","a","m","e","r"," ","n","a","t","u","r","e"," ","n","o","t","i","c","e","s"," ","s","u","b","t","l","e"," ","s","h","i","f","t","s"," ","f","i","r","s","t","."," ","L","e","t"," ","s","m","a","l","l"," ","r","i","t","u","a","l","s"," ","g","r","o","u","n","d"," ","y","o","u",","," ","a","n","d"," ","l","e","t"," ","c","l","a","r","i","t","y"," ","a","r","r","i","v","e"," ","i","n"," ","l","a","y","e","r","s",".">>),
      theme |-> Str(<<"C","l","a","r","i","t","y">>),
      energyScore |-> Num(55),
      bestHours |-> Arr(<<
        Obj([
          label |-> Str(<<"M","o","r","n","i","n","g">>),
          start |-> Str(<<"9",":","0","0"," ","A","M">>),
          end |-> Str(<<"1","1",":","0","0"," ","A","M">>)]),
        Obj([
          label |-> Str(<<"E","v","e","n","i","n","g">>),
          start |-> Str(<<"5",":","0","0"," ","P","M">>),
          end |-> Str(<<"7",":","0","0"," ","P","M">>)])>>),
      ratings |-> Obj([
        love |-> Num(3),
        work |-> Num(3),
        money |-> Num(2),
        health |-> Num(3)]),
      lucky |-> Obj([
        color |-> Str(<<"G","o","l","d">>),
        number |-> Num(1),
        symbol |-> Str(<<"STAR">>)]),
      doDont |-> Obj([
        do |-> Str(<<"T","r","u","s","t"," ","y","o","u","r"," ","i","n","s","t","i","n","c","t","s"," ","a","n","d"," ","k","e","e","p"," ","p","l","a","n","s"," ","s","i","m","p","l","e",".">>),
        dont |-> Str(<<"O","v","e","r","s","h","a","r","e"," ","o","r"," ","r","u","s","h"," ","t","o"," ","f","i","l","l"," ","q","u","i","e","t"," ","m","o","m","e","n","t","s",".">>)]),
      sections |-> Arr(<<
        Obj([
          title |-> Str(<<"F","o","c","u","s">>),
          body |-> Str(<<"P","i","c","k"," ","o","n","e"," ","c","l","e","a","r"," ","p","r","i","o","r","i","t","y"," ","a","n","d"," ","l","e","t"," ","t","h","e"," ","r","e","s","t"," ","s","o","f","t","e","n",".">>)]),
        Obj([
          title |-> Str(<<"R","e","l","a","t","i","o","n","s","h","i","p","s">>),
          body |-> Str(<<"L","e","a","d"," ","w","i","t","h"," ","w","a","r","m","t","h"," ","a","n","d"," ","g","i","v","e"," ","o","t","h","e","r","s"," ","s","p","a","c","e"," ","t","o"," ","r","e","s","p","o","n","d",".">>)]),
        Obj([
          title |-> Str(<<"A","c","t","i","o","n">>),
          body |-> Str(<<"T","a","k","e"," ","o","n","e"," ","g","r","o","u","n","d","e","d"," ","s","t","e","p"," ","t","h","a","t"," ","s","u","p","p","o","r","t","s"," ","y","o","u","r"," ","l","o","n","g"," ","v","i","e","w",".">>)]),
        Obj([
          title |-> Str(<<"R","e","f","l","e","c","t","i","o","n">>),
          body |-> Str(<<"N","o","t","i","c","e"," ","w","h","a","t"," ","f","e","e","l","s"," ","s","t","e","a","d","y"," ","a","n","d"," ","k","e","e","p"," ","r","e","t","u","r","n","i","n","g"," ","t","o"," ","i","t",".">>)])>>)]),
    cosmicWeather |-> Obj([
      moon |-> Obj([
        phase |-> Str(<<"F","i","r","s","t"," ","Q","u","a","r","t","e","r">>),
        sign |-> Str(<<"C","a","n","c","e","r">>)]),
      transits |-> Arr(<<
        Obj([
          title |-> Str(<<"M","e","r","c","u","r","y"," ","r","e","v","i","e","w"," ","c","y","c","l","e">>),
          tone |-> Str(<<"n","e","u","t","r","a","l">>),
          meaning |-> Str(<<"D","o","u","b","l","e","-","c","h","e","c","k"," ","d","e","t","a","i","l","s"," ","b","e","f","o","r","e"," ","c","o","m","m","i","t","t","i","n","g",".">>)]),
        Obj([
          title |-> Str(<<"V","e","n","u","s"," ","h","a","r","m","o","n","y">>),
          tone |-> Str(<<"s","o","f","t">>),
          meaning |-> Str(<<"G","e","n","t","l","e"," ","c","o","n","v","e","r","s","a","t","i","o","n","s"," ","l","a","n","d"," ","w","i","t","h"," ","e","a","s","e",".">>)])>>),
      affectsToday |-> Str(<<"E","m","o","t","i","o","n","a","l"," ","t","i","d","e","s"," ","r","i","s","e"," ","a","n","d"," ","f","a","l","l",";"," ","c","h","o","o","s","e"," ","c","a","l","m"," ","r","e","s","p","o","n","s","e","s",".">>)]),
    compatibility |-> Obj([
      bestFlowWith |-> Arr(<<
        Str(<<"A","r","i","e","s">>),
        Str(<<"G","e","m","i","n","i">>)>>),
      handleGentlyWith |-> Arr(<<
        Str(<<"T","a","u","r","u","s">>)>>),
      tips |-> Obj([
        conflict |-> Str(<<"P","a","u","s","e"," ","b","e","f","o","r","e"," ","r","e","p","l","y","i","n","g"," ","t","o"," ","k","e","e","p"," ","t","h","i","n","g","s"," ","k","i","n","d",".">>),
        affection |-> Str(<<"P","l","a","y","f","u","l"," ","h","o","n","e","s","t","y"," ","k","e","e","p","s"," ","t","h","e"," ","m","o","o","d"," ","l","i","g","h","t",".">>)])]),
    journalRitual |-> Obj([
      prompt |-> Str(<<"W","h","a","t"," ","f","e","e","l","s"," ","m","o","s","t"," ","i","m","p","o","r","t","a","n","t"," ","t","o"," ","p","r","o","t","e","c","t"," ","t","o","d","a","y","?">>),
      starters |-> Arr(<<
        Str(<<"I"," ","f","e","e","l","ELLIPSIS">>),
        Str(<<"I"," ","n","e","e","d","ELLIPSIS">>),
        Str(<<"I","'","m"," ","a","v","o","i","d","i","n","g","ELLIPSIS">>)>>),
      mantra |-> Str(<<"I"," ","m","o","v","e"," ","w","i","t","h"," ","g","r","a","c","e"," ","a","n","d"," ","c","l","e","a","r"," ","i","n","t","e","n","t","i","o","n",".">>),
      ritual |-> Str(<<"L","i","g","h","t"," ","a"," ","c","a","n","d","l","e"," ","a","n","d"," ","n","a","m","e"," ","o","n","e"," ","p","r","i","o","r","i","t","y"," ","o","u","t"," ","l","o","u","d",".">>),
      bestDayForDecisions |-> Obj([
        dayLabel |-> Str(<<"T","h","u","r","s","d","a","y">>),
        reason |-> Str(<<"C","l","a","r","i","t","y"," ","p","e","a","k","s"," ","i","n"," ","t","h","e"," ","a","f","t","e","r","n","o","o","n",".">>)])]),
    week |-> Obj([
      arc |-> Obj([
        start |-> Str(<<"S","e","t","t","l","e"," ","i","n","t","o"," ","a"," ","c","a","l","m",","," ","f","o","c","u","s","e","d"," ","r","h","y","t","h","m",".">>),
        midweek |-> Str(<<"T","u","n","e"," ","i","n","w","a","r","d"," ","b","e","f","o","r","e"," ","m","a","k","i","n","g"," ","c","h","a","n","g","e","s",".">>),
        weekend |-> Str(<<"C","o","n","v","e","r","s","a","t","i","o","n","s"," ","f","l","o","w"," ","a","n","d"," ","e","a","s","e"," ","r","e","t","u","r","n","s",".">>)]),
      keyOpportunity |-> Str(<<"S","t","r","e","n","g","t","h","e","n"," ","a"," ","b","o","n","d"," ","t","h","r","o","u","g","h"," ","s","i","m","p","l","e"," ","h","o","n","e","s","t","y",".">>),
      keyCaution |-> Str(<<"A","v","o","i","d"," ","o","v","e","r","c","o","m","m","i","t","t","i","n","g"," ","b","e","f","o","r","e"," ","y","o","u"," ","f","e","e","l"," ","r","e","a","d","y",".">>),
      bestDayFor |-> Obj([
        decisions |-> Str(<<"T","h","u","r","s","d","a","y">>),
        conversations |-> Str(<<"W","e","d","n","e","s","d","a","y">>),
        rest |-> Str(<<"S","u","n","d","a","y">>)])]),
    month |-> Obj([
      theme |-> Str(<<"C","l","a","r","i","t","y"," ","t","h","r","o","u","g","h"," ","g","e","n","t","l","e"," ","s","t","r","u","c","t","u","r","e",".">>),
      keyDates |-> Arr(<<
        Obj([
          dateLabel |-> Str(<<"J","a","n"," ","9","ENDASH","1","0">>),
          title |-> Str(<<"N","e","w"," ","M","o","o","n">>),
          note |-> Str(<<"S","e","t"," ","i","n","t","e","n","t","i","o","n","s"," ","a","r","o","u","n","d"," ","f","o","c","u","s",".">>)]),
        Obj([
          dateLabel |-> Str(<<"J","a","n"," ","1","7">>),
          title |-> Str(<<"P","e","r","s","o","n","a","l"," ","r","e","s","e","t">>),
          note |-> Str(<<"S","i","m","p","l","i","f","y"," ","a"," ","l","i","n","g","e","r","i","n","g"," ","t","a","s","k",".">>)]),
        Obj([
          dateLabel |-> Str(<<"J","a","n"," ","2","5">>),
          title |-> Str(<<"F","u","l","l"," ","M","o","o","n">>),
          note |-> Str(<<"R","e","l","e","a","s","e"," ","w","h","a","t"," ","f","e","e","l","s"," ","h","e","a","v","y",".">>)])>>),
      newMoon |-> Obj([
        dateLabel |-> Str(<<"J","a","n"," ","9","ENDASH","1","0">>),
        intention |-> Str(<<"C","o","m","m","i","t"," ","t","o"," ","o","n","e"," ","s","t","e","a","d","y"," ","p","r","a","c","t","i","c","e",".">>)]),
      fullMoon |-> Obj([
        dateLabel |-> Str(<<"J","a","n"," ","2","5">>),
        release |-> Str(<<"L","e","t"," ","g","o"," ","o","f"," ","s","c","a","t","t","e","r","e","d"," ","p","r","i","o","r","i","t","i","e","s",".">>)]),
      oneThing |-> Str(<<"I","f"," ","y","o","u"," ","d","o"," ","o","n","e"," ","t","h","i","n","g",","," ","c","h","o","o","s","e"," ","t","h","e"," ","g","e","n","t","l","e","s","t"," ","n","e","x","t"," ","s","t","e","p",".">>)]),
    year |-> Obj([
      headline |-> Str(<<"A"," ","y","e","a","r"," ","t","o"," ","t","r","u","s","t"," ","y","o","u","r"," ","t","i","m","i","n","g"," ","a","n","d"," ","r","e","f","i","n","e"," ","y","o","u","r"," ","c","r","a","f","t",".">>),
      quarters |-> Arr(<<
        Obj([
          label |-> Str(<<"Q","1">>),
          focus |-> Str(<<"G","r","o","u","n","d","e","d"," ","b","e","g","i","n","n","i","n","g","s"," ","a","n","d"," ","c","l","e","a","r","i","n","g"," ","s","p","a","c","e",".">>)]),
        Obj([
          label |-> Str(<<"Q","2">>),
          focus |-> Str(<<"M","o","m","e","n","t","u","m"," ","b","u","i","l","d","s"," ","t","h","r","o","u","g","h"," ","c","o","l","l","a","b","o","r","a","t","i","o","n",".">>)]),
        Obj([
          label |-> Str(<<"Q","3">>),
          focus |-> Str(<<"V","i","s","i","b","i","l","i","t","y"," ","g","r","o","w","s"," ","w","i","t","h"," ","s","t","e","a","d","y"," ","e","f","f","o","r","t",".">>)]),
        Obj([
          label |-> Str(<<"Q","4">>),
          focus |-> Str(<<"I","n","t","e","g","r","a","t","i","o","n"," ","a","n","d"," ","g","r","a","c","e","f","u","l"," ","c","o","m","p","l","e","t","i","o","n",".">>)])>>),
      powerMonths |-> Arr(<<
        Str(<<"M","a","r","c","h">>),
        Str(<<"J","u","l","y">>)>>),
      challengeMonth |-> Obj([
        month |-> Str(<<"O","c","t","o","b","e","r">>),
        guidance |-> Str(<<"S","l","o","w"," ","d","o","w","n"," ","a","n","d"," ","s","t","r","e","a","m","l","i","n","e",".">>)])])])

\* A payload that follows the template with every placeholder replaced; the
\* texts are short, as the prompt asks.
FilledPayload ==
  Obj([
    meta |-> Obj([
      dateISO |-> Str(<<"o","k">>),
      localeDateLabel |-> Str(<<"o","k">>),
      generatedAtISO |-> Str(<<"o","k">>),
      sign |-> Str(<<"o","k">>),
      name |-> Str(<<"o","k">>)]),
    tabs |-> Obj([
      activeDefault |-> Str(<<"t","o","d","a","y">>)]),
    today |-> Obj([
      headline |-> Str(<<"o","k">>),
      subhead |-> Str(<<"o","k">>),
      theme |-> Str(<<"o","k">>),
      energyScore |-> Num(55),
      bestHours |-> Arr(<<
        Obj([
          label |-> Str(<<"o","k">>),
          start |-> Str(<<"o","k">>),
          end |-> Str(<<"o","k">>)]),
        Obj([
          label |-> Str(<<"o","k">>),
          start |-> Str(<<"o","k">>),
          end |-> Str(<<"o","k">>)])>>),
      ratings |-> Obj([
        love |-> Num(3),
        work |-> Num(3),
        money |-> Num(2),
        health |-> Num(3)]),
      lucky |-> Obj([
        color |-> Str(<<"o","k">>),
        number |-> Num(1),
        symbol |-> Str(<<"o","k">>)]),
      doDont |-> Obj([
        do |-> Str(<<"o","k">>),
        dont |-> Str(<<"o","k">>)]),
      sections |-> Arr(<<
        Obj([
          title |-> Str(<<"F","o","c","u","s">>),
          body |-> Str(<<"o","k">>)]),
        Obj([
          title |-> Str(<<"R","e","l","a","t","i","o","n","s","h","i","p","s">>),
          body |-> Str(<<"o","k">>)]),
        Obj([
          title |-> Str(<<"A","c","t","i","o","n">>),
          body |-> Str(<<"o","k">>)]),
        Obj([
          title |-> Str(<<"R","e","f","l","e","c","t","i","o","n">>),
          body |-> Str(<<"o","k">>)])>>)]),
    cosmicWeather |-> Obj([
      moon |-> Obj([
        phase |-> Str(<<"o","k">>),
        sign |-> Str(<<"o","k">>)]),
      transits |-> Arr(<<
        Obj([
          title |-> Str(<<"o","k">>),
          tone |-> Str(<<"n","e","u","t","r","a","l">>),
          meaning |-> Str(<<"o","k">>)]),
        Obj([
          title |-> Str(<<"o","k">>),
          tone |-> Str(<<"s","o","f","t">>),
          meaning |-> Str(<<"o","k">>)])>>),
      affectsToday |-> Str(<<"o","k">>)]),
    compatibility |-> Obj([
      bestFlowWith |-> Arr(<<
        Str(<<"o","k">>),
        Str(<<"o","k">>)>>),
      handleGentlyWith |-> Arr(<<
        Str(<<"o","k">>)>>),
      tips |-> Obj([
        conflict |-> Str(<<"o","k">>),
        affection |-> Str(<<"o","k">>)])]),
    journalRitual |-> Obj([
      prompt |-> Str(<<"o","k">>),
      starters |-> Arr(<<
        Str(<<"o","k">>),
        Str(<<"o","k">>),
        Str(<<"o","k">>)>>),
      mantra |-> Str(<<"o","k">>),
      ritual |-> Str(<<"o","k">>),
      bestDayForDecisions |-> Obj([
        dayLabel |-> Str(<<"o","k">>),
        reason |-> Str(<<"o","k">>)])]),
    week |-> Obj([
      arc |-> Obj([
        start |-> Str(<<"o","k">>),
        midweek |-> Str(<<"o","k">>),
        weekend |-> Str(<<"o","k">>)]),
      keyOpportunity |-> Str(<<"o","k">>),
      keyCaution |-> Str(<<"o","k">>),
      bestDayFor |-> Obj([
        decisions |-> Str(<<"o","k">>),
        conversations |-> Str(<<"o","k">>),
        rest |-> Str(<<"o","k">>)])]),
    month |-> Obj([
      theme |-> Str(<<"o","k">>),
      keyDates |-> Arr(<<
        Obj([
          dateLabel |-> Str(<<"o","k">>),
          title |-> Str(<<"o","k">>),
          note |-> Str(<<"o","k">>)]),
        Obj([
          dateLabel |-> Str(<<"o","k">>),
          title |-> Str(<<"o","k">>),
          note |-> Str(<<"o","k">>)]),
        Obj([
          dateLabel |-> Str(<<"o","k">>),
          title |-> Str(<<"o","k">>),
          note |-> Str(<<"o","k">>)])>>),
      newMoon |-> Obj([
        dateLabel |-> Str(<<"o","k">>),
        intention |-> Str(<<"o","k">>)]),
      fullMoon |-> Obj([
        dateLabel |-> Str(<<"o","k">>),
        release |-> Str(<<"o","k">>)]),
      oneThing |-> Str(<<"o","k">>)]),
    year |-> Obj([
      headline |-> Str(<<"o","k">>),
      quarters |-> Arr(<<
        Obj([
          label |-> Str(<<"Q","1">>),
          focus |-> Str(<<"o","k">>)]),
        Obj([
          label |-> Str(<<"Q","2">>),
          focus |-> Str(<<"o","k">>)]),
        Obj([
          label |-> Str(<<"Q","3">>),
          focus |-> Str(<<"o","k">>)]),
        Obj([
          label |-> Str(<<"Q","4">>),
          focus |-> Str(<<"o","k">>)])>>),
      powerMonths |-> Arr(<<
        Str(<<"o","k">>),
        Str(<<"o","k">>)>>),
      challengeMonth |-> Obj([
        month |-> Str(<<"o","k">>),
        guidance |-> Str(<<"o","k">>)])])])

(***************************************************************************)
(* Candidates: what JSON.parse can hand to the normalizer.  A candidate is *)
(* FilledPayload with at most MaxEdits of the edits below applied; an edit *)
(* replaces the value at a path (Undef removes the property).              *)
(***************************************************************************)
MaxEdits == 2

RECURSIVE SetPath(_, _, _)
SetPath(o, path, val) ==
  IF path = <<>> THEN val
  ELSE IF o.t # "obj" THEN o
  ELSE IF Len(path) = 1 /\ val.t = "undef"
       THEN Obj([x \in (DOMAIN o.v) \ {path[1]} |-> o.v[x]])
  ELSE Put(o, path[1], SetPath(Get(o, path[1]), Tail(path), val))

Ok == Str(<<"o","k">>)
Hour == Obj([label |-> Ok, start |-> Ok, end |-> Ok])
Section(title) == Obj([title |-> Str(title), body |-> Ok])
Transit(tone) == Obj([title |-> Ok, tone |-> tone, meaning |-> Ok])
KeyDate == Obj([dateLabel |-> Ok, title |-> Ok, note |-> Ok])
Quarter(label) == Obj([label |-> Str(label), focus |-> Ok])

Edits == <<
  \* today.energyScore
  <<<<"today", "energyScore">>, Tenths(505)>>,
  <<<<"today", "energyScore">>, Num(150)>>,
  <<<<"today", "energyScore">>, Tenths(-4)>>,
  <<<<"today", "energyScore">>, Str(<<" ","5","0"," ">>)>>,
  <<<<"today", "energyScore">>, Str(<<"7",".","5">>)>>,
  <<<<"today", "energyScore">>, Str(<<"h","i","g","h">>)>>,
  <<<<"today", "energyScore">>, Inf>>,
  <<<<"today", "energyScore">>, Undef>>,
  \* today.ratings
  <<<<"today", "ratings", "love">>, Tenths(25)>>,
  <<<<"today", "ratings", "work">>, Num(9)>>,
  <<<<"today", "ratings", "money">>, Num(-1)>>,
  <<<<"today", "ratings", "health">>, Str(<<"4">>)>>,
  <<<<"today", "ratings", "health">>, Null>>,
  <<<<"today", "lucky", "number">>, Tenths(75)>>,
  \* today.bestHours
  <<<<"today", "bestHours">>, Arr(<<Hour, Hour, Hour>>)>>,
  <<<<"today", "bestHours">>, Arr(<<Hour>>)>>,
  <<<<"today", "bestHours">>, Arr(<<Ok, Obj([label |-> Ok])>>)>>,
  <<<<"today", "bestHours">>, Ok>>,
  \* today.sections
  <<<<"today", "sections">>,
    Arr(<<Section(S_Reflection), Section(<<" ","A","C","T","I","O","N"," ">>), Section(S_focus), Section(S_Relationships)>>)>>,
  <<<<"today", "sections">>, Arr(<<Section(S_Focus), Section(S_Action)>>)>>,
  <<<<"today", "sections">>,
    Arr(<<Section(S_Focus), Section(S_Relationships), Section(S_Action), Section(S_Reflection),
          Section(S_Focus)>>)>>,
  <<<<"today", "sections">>,
    Arr(<<Section(S_Focus), Section(S_Relationships), Section(S_Action), Section(<<"S","u","m","m","a","r","y">>)>>)>>,
  <<<<"today", "sections">>, Arr(<<>>)>>,
  <<<<"today", "sections">>, Null>>,
  \* cosmicWeather.transits
  <<<<"cosmicWeather", "transits">>,
    Arr(<<Transit(Str(S_soft)), Transit(Str(S_neutral)), Transit(Str(S_intense))>>)>>,
  <<<<"cosmicWeather", "transits">>,
    Arr(<<Transit(Str(<<"v","e","r","y"," ","i","n","t","e","n","s","e"," ","a","n","d"," ","v","o","l","a","t","i","l","e">>)), Transit(Str(<<"a"," ","g","e","n","t","l","e"," ","n","u","d","g","e">>))>>)>>,
  <<<<"cosmicWeather", "transits">>, Arr(<<Transit(Str(<<"C","a","l","m">>)), Transit(Num(1))>>)>>,
  <<<<"cosmicWeather", "transits">>, Arr(<<>>)>>,
  \* compatibility
  <<<<"compatibility", "bestFlowWith">>, Arr(<<Ok>>)>>,
  <<<<"compatibility", "bestFlowWith">>, Arr(<<Ok, Num(2), Ok>>)>>,
  <<<<"compatibility", "handleGentlyWith">>, Arr(<<>>)>>,
  <<<<"compatibility", "handleGentlyWith">>, Arr(<<Ok, Ok>>)>>,
  \* journalRitual.starters
  <<<<"journalRitual", "starters">>, Arr(<<Ok, Ok>>)>>,
  <<<<"journalRitual", "starters">>, Arr(<<Ok, Ok, Ok, Ok>>)>>,
  <<<<"journalRitual", "starters">>, Undef>>,
  \* month.keyDates
  <<<<"month", "keyDates">>, Arr(<<KeyDate, KeyDate>>)>>,
  <<<<"month", "keyDates">>, Arr(<<KeyDate, KeyDate, KeyDate, Null>>)>>,
  \* year
  <<<<"year", "quarters">>,
    Arr(<<Quarter(S_Q4), Quarter(S_Q3), Quarter(S_Q2), Quarter(S_Q1)>>)>>,
  <<<<"year", "quarters">>, Arr(<<Quarter(S_Q1), Quarter(S_Q2), Quarter(S_Q3)>>)>>,
  <<<<"year", "quarters">>,
    Arr(<<Quarter(S_Q1), Quarter(S_Q1), Quarter(S_Q2), Quarter(S_Q2)>>)>>,
  <<<<"year", "quarters">>,
    Arr(<<Quarter(S_Q1), Quarter(S_Q2), Quarter(S_Q3), Quarter(<<"Q","5">>)>>)>>,
  <<<<"year", "powerMonths">>, Arr(<<Ok>>)>>,
  <<<<"year", "powerMonths">>, Arr(<<Ok, Ok, Ok>>)>>,
  <<<<"year", "powerMonths">>, Arr(<<Ok, Num(7)>>)>>,
  <<<<"year", "powerMonths">>, Arr(<<>>)>>,
  \* texts
  <<<<"today", "headline">>, Str(<<"a", "LF", "b">>)>>,
  <<<<"week", "arc", "start">>, Str(<<"a", "CR", "LF", "b">>)>>,
  <<<<"today", "theme">>, Str(<<"_","_","F","I","L","L","_","_">>)>>,
  <<<<"meta", "name">>, Num(3)>>,
  \* sections of the root
  <<<<"tabs", "activeDefault">>, Str(<<"w","e","e","k">>)>>,
  <<<<"meta">>, Undef>>,
  <<<<"year">>, Arr(<<>>)>>,
  <<<<"today">>, Null>>,
  \* the root itself
  <<<<>>, Arr(<<FilledPayload>>)>>,
  <<<<>>, Num(7)>>
>>

RECURSIVE ApplyEdits(_, _, _)
ApplyEdits(o, chosen, i) ==
  IF i > Len(Edits) THEN o
  ELSE ApplyEdits(IF i \in chosen THEN SetPath(o, Edits[i][1], Edits[i][2]) ELSE o,
                  chosen, i + 1)

\* the sets of at most n edits
RECURSIVE EditSets(_)
EditSets(n) ==
  IF n = 0 THEN {{}}
  ELSE LET smaller == EditSets(n - 1)
       IN smaller \cup {s \cup {i} : s \in smaller, i \in 1..Len(Edits)}


(***************************************************************************)
(* The sanitizer (sanitizeDashboardPayload and its steps), on texts as     *)
(* sequences of characters.  "BT" is the backtick; "LF", "CR" and "TAB"    *)
(* are the white-space characters of that name.                            *)
(***************************************************************************)
QUOTE == "\""
BACKSLASH == "\\"
FENCE == <<"BT", "BT", "BT">>

\* text[j] of JavaScript, for a 1-based j: "undefined" past the end
CharAt(text, j) == IF j >= 1 /\ j <= Len(text) THEN text[j] ELSE "undefined"

\* while (j < text.length && /\s/.test(text[j])) j += 1
RECURSIVE SkipSpaces(_, _)
SkipSpaces(text, j) ==
  IF j <= Len(text) /\ text[j] \in Whitespace THEN SkipSpaces(text, j + 1) ELSE j

\* the string scanner every step shares: the flags after reading ch inside
\* a string literal
StillInString(escaped, ch) == escaped \/ ch = BACKSLASH \/ ch # QUOTE
NowEscaped(escaped, ch) == ~escaped /\ ch = BACKSLASH

\* for (let i = 0; i < text.length; i += 1) { body }: the loop variables s
\* after the loop.  The body is applied while s.i is an index of the text;
\* the repetition is by halves, 2^k applications at level k.
RECURSIVE Levels(_)
Levels(n) == IF n <= 1 THEN 0 ELSE 1 + Levels((n + 1) \div 2)

RECURSIVE Repeat(_, _, _, _)
Repeat(body(_), done(_), s, k) ==
  IF done(s) THEN s
  ELSE IF k = 0 THEN body(s)
  ELSE Repeat(body, done, Repeat(body, done, s, k - 1), k - 1)

ForEachChar(body(_), text, s) ==
  Repeat(body, LAMBDA v : v.i > Len(text), s, Levels(Len(text)))

\* out += ch, and the next character
Copy(s, ch) == [s EXCEPT !.i = @ + 1, !.out = Append(@, ch)]
\* continue without output
Skip(s) == [s EXCEPT !.i = @ + 1]
\* the branch if (inString) { out += ch; ... continue; }
CopyInString(s, ch) ==
  [s EXCEPT !.i = @ + 1, !.out = Append(@, ch),
            !.inString = StillInString(s.escaped, ch), !.escaped = NowEscaped(s.escaped, ch)]
\* the branch if (ch === '"') { inString = true; out += ch; continue; }
OpenString(s, ch) == [s EXCEPT !.i = @ + 1, !.out = Append(@, ch), !.inString = TRUE]

\* String.prototype.indexOf and lastIndexOf for one character, 1-based; 0
\* stands for -1
indexOf(text, c) ==
  IF \E i \in 1..Len(text) : text[i] = c
  THEN CHOOSE i \in 1..Len(text) : text[i] = c /\ \A j \in 1..(i - 1) : text[j] # c
  ELSE 0

lastIndexOf(text, c) ==
  IF \E i \in 1..Len(text) : text[i] = c
  THEN CHOOSE i \in 1..Len(text) : text[i] = c /\ \A j \in (i + 1)..Len(text) : text[j] # c
  ELSE 0

\* whether the characters of word stand at text[i..], letters compared
\* without case when ignoreCase
MatchesAt(text, i, word, ignoreCase) ==
  /\ i + Len(word) - 1 <= Len(text)
  /\ \A k \in 1..Len(word) :
       IF ignoreCase
       THEN toLowerCase(<<text[i + k - 1]>>) = toLowerCase(<<word[k]>>)
       ELSE text[i + k - 1] = word[k]

\* the end of a match of /```(?:json)?\s*/ that starts at i: the index after it
FenceEnd(text, i, withJson) ==
  IF withJson /\ MatchesAt(text, i + 3, <<"j", "s", "o", "n">>, TRUE)
  THEN SkipSpaces(text, i + 7)
  ELSE SkipSpaces(text, i + 3)

\* text.replace(/```(?:json)?\s*/gi, "") when withJson, and
\* text.replace(/```\s*/g, "") otherwise: one character or one match
replaceFencesBody(text, s, withJson) ==
  IF MatchesAt(text, s.i, FENCE, FALSE)
  THEN [s EXCEPT !.i = FenceEnd(text, s.i, withJson)]
  ELSE Copy(s, text[s.i])

replaceFences(text, withJson) ==
  ForEachChar(LAMBDA s : replaceFencesBody(text, s, withJson), text, [i |-> 1, out |-> <<>>]).out

stripCodeFences(text) ==
  trim(replaceFences(replaceFences(text, TRUE), FALSE))

\* extractJsonSlice: [slice, found]; found is FALSE where the code gives null
extractJsonSlice(text) ==
  IF indexOf(text, "{") = 0 \/ lastIndexOf(text, "}") = 0
     \/ lastIndexOf(text, "}") <= indexOf(text, "{")
  THEN [slice |-> <<>>, found |-> FALSE]
  ELSE [slice |-> SubSeq(text, indexOf(text, "{"), lastIndexOf(text, "}")), found |-> TRUE]

\* const extractedJson = slice ?? noFences
SliceOrText(extraction, text) == IF extraction.found THEN extraction.slice ELSE text

removeTrailingCommasBody(text, s) ==
  IF s.inString THEN CopyInString(s, text[s.i])
  ELSE IF text[s.i] = QUOTE THEN OpenString(s, text[s.i])
  ELSE IF text[s.i] = "," /\ CharAt(text, SkipSpaces(text, s.i + 1)) \in {"}", "]"}
  THEN Skip(s)
  ELSE Copy(s, text[s.i])

removeTrailingCommas(text) ==
  ForEachChar(LAMBDA s : removeTrailingCommasBody(text, s), text,
              [i |-> 1, out |-> <<>>, inString |-> FALSE, escaped |-> FALSE]).out

isIdentStart(c) == IndexIn(c, Upper) > 0 \/ IndexIn(c, Lower) > 0 \/ c \in {"_", "$"}
isIdent(c) == isIdentStart(c) \/ IndexIn(c, Digits) > 0

\* while (j < text.length && isIdent(text[j])) j += 1
RECURSIVE SkipIdent(_, _)
SkipIdent(text, j) ==
  IF j <= Len(text) /\ isIdent(text[j]) THEN SkipIdent(text, j + 1) ELSE j

\* stack[stack.length - 1] === "object"
TopIsObject(stack) == stack # <<>> /\ stack[Len(stack)] = "object"
Pop(stack) == IF stack = <<>> THEN stack ELSE SubSeq(stack, 1, Len(stack) - 1)

\* a bare identifier at i that is followed, after white space, by a colon
BareKeyAt(text, i) ==
  /\ isIdentStart(text[i])
  /\ CharAt(text, SkipSpaces(text, SkipIdent(text, i + 1))) = ":"

\* out += `"${key}"`; i = k - 1; expectKey = false
QuoteKey(text, s) ==
  [s EXCEPT !.i = SkipSpaces(text, SkipIdent(text, s.i + 1)),
            !.out = @ \o <<QUOTE>> \o SubSeq(text, s.i, SkipIdent(text, s.i + 1) - 1) \o <<QUOTE>>,
            !.expectKey = FALSE]

quoteUnquotedKeysBody(text, s) ==
  IF s.inString THEN CopyInString(s, text[s.i])
  ELSE IF text[s.i] = QUOTE THEN OpenString(s, text[s.i])
  ELSE IF text[s.i] = "{"
  THEN [Copy(s, text[s.i]) EXCEPT !.stack = Append(@, "object"), !.expectKey = TRUE]
  ELSE IF text[s.i] = "["
  THEN [Copy(s, text[s.i]) EXCEPT !.stack = Append(@, "array"), !.expectKey = FALSE]
  ELSE IF text[s.i] \in {"}", "]"}
  THEN [Copy(s, text[s.i]) EXCEPT !.stack = Pop(@), !.expectKey = TopIsObject(Pop(s.stack))]
  ELSE IF text[s.i] = ","
  THEN [Copy(s, text[s.i]) EXCEPT !.expectKey = TopIsObject(s.stack)]
  ELSE IF text[s.i] = ":"
  THEN [Copy(s, text[s.i]) EXCEPT !.expectKey = FALSE]
  ELSE IF s.expectKey /\ text[s.i] \notin Whitespace /\ BareKeyAt(text, s.i)
  THEN QuoteKey(text, s)
  ELSE Copy(s, text[s.i])

quoteUnquotedKeys(text) ==
  ForEachChar(LAMBDA s : quoteUnquotedKeysBody(text, s), text,
              [i |-> 1, out |-> <<>>, inString |-> FALSE, escaped |-> FALSE,
               stack |-> <<>>, expectKey |-> FALSE]).out

\* a closing brace at i that is followed, after white space, by a comma and,
\* after white space, an opening brace: the index of that brace, or 0
NextRootObject(text, i) ==
  IF /\ CharAt(text, SkipSpaces(text, i + 1)) = ","
     /\ CharAt(text, SkipSpaces(text, SkipSpaces(text, i + 1) + 1)) = "{"
  THEN SkipSpaces(text, SkipSpaces(text, i + 1) + 1)
  ELSE 0

mergeRootObjectsBody(text, s) ==
  IF s.inString THEN CopyInString(s, text[s.i])
  ELSE IF text[s.i] = QUOTE THEN OpenString(s, text[s.i])
  ELSE IF text[s.i] \in {"{", "["}
  THEN [Copy(s, text[s.i]) EXCEPT !.depth = @ + 1]
  ELSE IF text[s.i] = "}" /\ s.depth = 1 /\ NextRootObject(text, s.i) # 0
  THEN [s EXCEPT !.i = NextRootObject(text, s.i) + 1]
  ELSE IF text[s.i] \in {"}", "]"}
  THEN [Copy(s, text[s.i]) EXCEPT !.depth = @ - 1]
  ELSE Copy(s, text[s.i])

mergeRootObjects(text) ==
  ForEachChar(LAMBDA s : mergeRootObjectsBody(text, s), text,
              [i |-> 1, out |-> <<>>, inString |-> FALSE, escaped |-> FALSE, depth |-> 0]).out

\* unwrapAnonymousRootObjects; pending is pendingWrapperStart (0 for null),
\* skipping is skippingWrapper, endDepth is wrapperEndDepth
unwrapBody(text, s) ==
  IF s.inString THEN CopyInString(s, text[s.i])
  ELSE IF text[s.i] = QUOTE THEN OpenString(s, text[s.i])
  ELSE IF text[s.i] = "," /\ s.depth = 1
  THEN [Copy(s, text[s.i]) EXCEPT
          !.pending = IF CharAt(text, SkipSpaces(text, s.i + 1)) = "{"
                      THEN SkipSpaces(text, s.i + 1) ELSE @]
  ELSE IF s.pending # 0 /\ s.i = s.pending /\ text[s.i] = "{"
  THEN [Skip(s) EXCEPT !.skipping = TRUE, !.endDepth = s.depth + 1, !.depth = @ + 1,
                       !.pending = 0]
  ELSE IF text[s.i] \in {"{", "["}
  THEN [Copy(s, text[s.i]) EXCEPT !.depth = @ + 1]
  ELSE IF text[s.i] = "}" /\ s.skipping /\ s.depth = s.endDepth
  THEN [Skip(s) EXCEPT !.depth = @ - 1, !.skipping = FALSE]
  ELSE IF text[s.i] \in {"}", "]"}
  THEN [Copy(s, text[s.i]) EXCEPT !.depth = @ - 1]
  ELSE Copy(s, text[s.i])

unwrapAnonymousRootObjects(text) ==
  ForEachChar(LAMBDA s : unwrapBody(text, s), text,
              [i |-> 1, out |-> <<>>, inString |-> FALSE, escaped |-> FALSE, depth |-> 0,
               pending |-> 0, skipping |-> FALSE, endDepth |-> 0]).out

\* the scan of closeMissingFinalBrace
braceScanBody(text, s) ==
  IF s.inString
  THEN [s EXCEPT !.i = @ + 1, !.inString = StillInString(s.escaped, text[s.i]),
                 !.escaped = NowEscaped(s.escaped, text[s.i])]
  ELSE IF text[s.i] = QUOTE THEN [s EXCEPT !.i = @ + 1, !.inString = TRUE]
  ELSE IF text[s.i] = "{" THEN [s EXCEPT !.i = @ + 1, !.depth = @ + 1]
  ELSE IF text[s.i] = "}" THEN [s EXCEPT !.i = @ + 1, !.depth = @ - 1]
  ELSE Skip(s)

\* [inString, depth] at the end of text
braceScan(text) ==
  ForEachChar(LAMBDA s : braceScanBody(text, s), text,
              [i |-> 1, inString |-> FALSE, escaped |-> FALSE, depth |-> 0])

\* A repair that closes every open brace: used to show what "exactly one" says.
closeEveryBrace(text) ==
  text \o [k \in 1..Max(0, braceScan(text).depth) |-> "}"]

closeMissingFinalBrace(text) ==
  IF braceScan(text).inString \/ braceScan(text).depth <= 0
  THEN text
  ELSE text \o <<"}">>

\* sanitizeDashboardPayload(raw).sanitized
sanitizeDashboardPayload(raw) ==
  closeMissingFinalBrace(
    unwrapAnonymousRootObjects(
      mergeRootObjects(
        quoteUnquotedKeys(
          removeTrailingCommas(
            SliceOrText(extractJsonSlice(stripCodeFences(trim(raw))),
                        stripCodeFences(trim(raw))))))))

(***************************************************************************)
(* JSON.parse on a sequence of characters: [ok, next, value], next the     *)
(* index after the value read.  Numbers are the numerals of                *)
(* StringToNumber without leading zeros; \u escapes and exponents do not   *)
(* occur in the texts of the model and are not read.                       *)
(***************************************************************************)
ParseFail == [ok |-> FALSE, next |-> 0, value |-> Null]
ParseDone(value, next) == [ok |-> TRUE, next |-> next, value |-> value]

\* the character an escape sequence \c stands for, "none" if there is none
Unescape(c) ==
  CASE c = QUOTE -> QUOTE
    [] c = BACKSLASH -> BACKSLASH
    [] c = "/" -> "/"
    [] c = "n" -> "LF"
    [] c = "r" -> "CR"
    [] c = "t" -> "TAB"
    [] c = "b" -> "BS"
    [] c = "f" -> "FF"
    [] OTHER -> "none"

\* a string literal, one character or one escape sequence at a time
ParseStringBody(text, s) ==
  IF text[s.i] = QUOTE THEN [s EXCEPT !.i = @ + 1, !.status = "done"]
  ELSE IF text[s.i] = BACKSLASH
  THEN IF Unescape(CharAt(text, s.i + 1)) = "none" THEN [s EXCEPT !.status = "fail"]
       ELSE [s EXCEPT !.i = @ + 2, !.acc = Append(@, Unescape(text[s.i + 1]))]
  ELSE IF text[s.i] \in {"LF", "CR", "TAB"} THEN [s EXCEPT !.status = "fail"]
  ELSE [s EXCEPT !.i = @ + 1, !.acc = Append(@, text[s.i])]

StringResult(s) == IF s.status = "done" THEN ParseDone(Str(s.acc), s.i) ELSE ParseFail

\* a string literal from the character after its opening quote
ParseStringFrom(text, i, acc) ==
  StringResult(Repeat(LAMBDA s : ParseStringBody(text, s),
                      LAMBDA s : s.status # "open" \/ s.i > Len(text),
                      [i |-> i, acc |-> acc, status |-> "open"], Levels(Len(text))))

\* while (j < text.length && text[j] is a digit) j += 1
RECURSIVE SkipDigits(_, _)
SkipDigits(text, j) ==
  IF j <= Len(text) /\ IndexIn(text[j], Digits) > 0 THEN SkipDigits(text, j + 1) ELSE j

\* an unsigned numeral at i: digits without a leading zero and at most one
\* digit after a decimal point
ParseUnsigned(text, i, sign) ==
  IF SkipDigits(text, i) = i THEN ParseFail
  ELSE IF text[i] = "0" /\ SkipDigits(text, i) > i + 1 THEN ParseFail
  ELSE IF CharAt(text, SkipDigits(text, i)) = "."
  THEN IF SkipDigits(text, SkipDigits(text, i) + 1) # SkipDigits(text, i) + 2 THEN ParseFail
       ELSE ParseDone(Tenths(sign * StringToNumber(SubSeq(text, i, SkipDigits(text, i) + 1)).v),
                      SkipDigits(text, i) + 2)
  ELSE ParseDone(Tenths(sign * StringToNumber(SubSeq(text, i, SkipDigits(text, i) - 1)).v),
                 SkipDigits(text, i))

ParseLiteral(text, i) ==
  IF MatchesAt(text, i, <<"t","r","u","e">>, FALSE) THEN ParseDone([t |-> "bool", v |-> TRUE], i + 4)
  ELSE IF MatchesAt(text, i, <<"f","a","l","s","e">>, FALSE)
  THEN ParseDone([t |-> "bool", v |-> FALSE], i + 5)
  ELSE IF MatchesAt(text, i, <<"n","u","l","l">>, FALSE) THEN ParseDone(Null, i + 4)
  ELSE ParseFail

RECURSIVE ParseValue(_, _)
RECURSIVE ParseMembers(_, _, _)
RECURSIVE ParseElements(_, _, _)

\* after a member's value: a comma and the next member, or the closing brace
AfterMemberValue(text, key, vr, obj) ==
  IF ~vr.ok THEN ParseFail
  ELSE IF CharAt(text, SkipSpaces(text, vr.next)) = ","
  THEN ParseMembers(text, SkipSpaces(text, vr.next) + 1, Put(obj, key, vr.value))
  ELSE IF CharAt(text, SkipSpaces(text, vr.next)) = "}"
  THEN ParseDone(Put(obj, key, vr.value), SkipSpaces(text, vr.next) + 1)
  ELSE ParseFail

\* after a member's key: the colon and the value
AfterMemberKey(text, kr, obj) ==
  IF ~kr.ok THEN ParseFail
  ELSE IF CharAt(text, SkipSpaces(text, kr.next)) # ":" THEN ParseFail
  ELSE AfterMemberValue(text, kr.value.v, ParseValue(text, SkipSpaces(text, kr.next) + 1), obj)

\* a member of an object, from index i
ParseMembers(text, i, obj) ==
  IF CharAt(text, SkipSpaces(text, i)) # QUOTE THEN ParseFail
  ELSE AfterMemberKey(text, ParseStringFrom(text, SkipSpaces(text, i) + 1, <<>>), obj)

\* after an element: a comma and the next element, or the closing bracket
AfterElement(text, vr, elements) ==
  IF ~vr.ok THEN ParseFail
  ELSE IF CharAt(text, SkipSpaces(text, vr.next)) = ","
  THEN ParseElements(text, SkipSpaces(text, vr.next) + 1, Append(elements, vr.value))
  ELSE IF CharAt(text, SkipSpaces(text, vr.next)) = "]"
  THEN ParseDone(Arr(Append(elements, vr.value)), SkipSpaces(text, vr.next) + 1)
  ELSE ParseFail

ParseElements(text, i, elements) == AfterElement(text, ParseValue(text, i), elements)

\* the value that starts at the first character that is not white space
ValueAt(text, j) ==
  CASE CharAt(text, j) = "{" ->
         IF CharAt(text, SkipSpaces(text, j + 1)) = "}"
         THEN ParseDone(Obj(<<>>), SkipSpaces(text, j + 1) + 1)
         ELSE ParseMembers(text, j + 1, Obj(<<>>))
    [] CharAt(text, j) = "[" ->
         IF CharAt(text, SkipSpaces(text, j + 1)) = "]"
         THEN ParseDone(Arr(<<>>), SkipSpaces(text, j + 1) + 1)
         ELSE ParseElements(text, j + 1, <<>>)
    [] CharAt(text, j) = QUOTE -> ParseStringFrom(text, j + 1, <<>>)
    [] CharAt(text, j) = "-" -> ParseUnsigned(text, j + 1, -1)
    [] IndexIn(CharAt(text, j), Digits) > 0 -> ParseUnsigned(text, j, 1)
    [] OTHER -> ParseLiteral(text, j)

ParseValue(text, i) == ValueAt(text, SkipSpaces(text, i))

\* the value read, if nothing but white space follows it
WholeText(text, r) ==
  IF r.ok /\ SkipSpaces(text, r.next) > Len(text)
  THEN [ok |-> TRUE, value |-> r.value]
  ELSE [ok |-> FALSE, value |-> Null]

\* JSON.parse(text): [ok, value]; ok is FALSE where JSON.parse throws
JSONparse(text) == WholeText(text, ParseValue(text, 1))

(***************************************************************************)
(* Backend text.  A text is represented by what the sanitizer and          *)
(* JSON.parse make of it: whether it is the empty string, whether          *)
(* JSON.parse(sanitize(text)) returns, and the value or the message of the *)
(* SyntaxError.                                                            *)
(***************************************************************************)
P_eof == <<"U","n","e","x","p","e","c","t","e","d"," ","e","n","d"," ","o","f"," ","J","S","O","N"," ","i","n","p","u","t">>
P_token == <<"U","n","e","x","p","e","c","t","e","d"," ","t","o","k","e","n"," ","h"," ","i","n"," ","J","S","O","N"," ","a","t"," ","p","o","s","i","t","i","o","n"," ","0">>
P_expected == <<"E","x","p","e","c","t","e","d"," ","'",",","'"," ","o","r"," ","'","}","'"," ","a","f","t","e","r"," ","p","r","o","p","e","r","t","y"," ","v","a","l","u","e"," ","i","n"," ","J","S","O","N"," ","a","t"," ","p","o","s","i","t","i","o","n"," ","7">>

TextOf(value) == [empty |-> FALSE, parses |-> TRUE, value |-> value, message |-> Empty]
BrokenText(message) == [empty |-> FALSE, parses |-> FALSE, value |-> Null, message |-> message]
EmptyText == [empty |-> TRUE, parses |-> FALSE, value |-> Null, message |-> P_eof]

failResult(message) == [ok |-> FALSE, error |-> message, value |-> Null]

\* the result of sanitizeAndParseDashboardPayload for a validation result
parseResult(validation) ==
  IF ~validation.valid THEN failResult(validation.error)
  ELSE [ok |-> TRUE, error |-> Empty, value |-> validation.payload]

\* sanitizeAndParseDashboardPayload after normalizeDashboard
parseNormalized(normalized) ==
  IF ~isRecord(normalized) THEN failResult(E_root)
  ELSE parseResult(validateDashboardPayload(normalized))

\* sanitizeAndParseDashboardPayload: [ok, error, value]
sanitizeAndParseDashboardPayload(json) ==
  IF ~json.parses THEN failResult(json.message)
  ELSE parseNormalized(normalizeDashboard(json.value))

VARIABLES
  vtext,    \* the text given to sanitizeAndParseDashboardPayload
  cand,     \* the candidate: the parsed, then the normalized value
  vphase,   \* "text", "parsed", "normalized", "accepted", "rejected",
            \* and for the validator on its own "rawAccepted", "rawRejected"
  verror,   \* the message of the rejection
  stub      \* the calls of the stub generator: profile, date and, per call, clock, payload and text

vvars == <<vtext, cand, vphase, verror, stub>>

VARIABLES
  tauri,      \* isTauriRuntime()
  state,      \* the store's AppState
  undoStack,  \* CommandBus.undoStack
  tasks,      \* the tasks given to AsyncQueue.enqueue, in order, with their progress
  calls,      \* invoke("generate_dashboard_payload") calls that have not settled
  loader,     \* the backend's model loader: "init", "loading", "settled"
  storage     \* localStorage: "ok", or "full" when setItem throws

ovars == <<tauri, state, undoStack, tasks, calls, loader, storage>>

VARIABLES
  races,          \* EmbeddedModelAdapter.generate: the Promise.race of each call
  subscriptions,  \* createStore: the subscriptions array
  pass            \* the last applyEvents: the subscriptions before it and the calls of
                  \* listeners it made; made counts the calls of subscribe

xvars == <<races, subscriptions, pass>>

vars == <<vvars, ovars, xvars>>

VInit ==
  /\ \/ \E chosen \in EditSets(MaxEdits) : vtext = TextOf(ApplyEdits(FilledPayload, chosen, 1))
     \/ vtext \in {EmptyText, BrokenText(P_eof), BrokenText(P_token), BrokenText(P_expected)}
  /\ cand = Null
  /\ vphase = "text"
  /\ verror = Empty
  /\ stub = <<>>

\* sanitizeDashboardPayload and JSON.parse
VParse ==
  /\ vphase = "text"
  /\ IF vtext.parses
     THEN /\ cand' = vtext.value
          /\ vphase' = "parsed"
          /\ verror' = verror
     ELSE /\ vphase' = "rejected"
          /\ verror' = vtext.message
          /\ cand' = cand
  /\ UNCHANGED <<vtext, stub, ovars, xvars>>

\* normalizeDashboard
VNormalize ==
  /\ vphase = "parsed"
  /\ cand' = normalizeDashboard(cand)
  /\ vphase' = "normalized"
  /\ UNCHANGED <<vtext, verror, stub, ovars, xvars>>

\* the root check and validateDashboardPayload on the normalized value
VValidate ==
  /\ vphase = "normalized"
  /\ LET validation == IF ~isRecord(cand) THEN errorResult(E_root)
                       ELSE validateDashboardPayload(cand)
     IN /\ vphase' = IF validation.valid THEN "accepted" ELSE "rejected"
        /\ verror' = validation.error
  /\ UNCHANGED <<vtext, cand, stub, ovars, xvars>>

\* validateDashboardPayload on the parsed value, without normalizeDashboard
VValidateOnly ==
  /\ vphase = "parsed"
  /\ LET validation == validateDashboardPayload(cand)
     IN /\ vphase' = IF validation.valid THEN "rawAccepted" ELSE "rawRejected"
        /\ verror' = validation.error
  /\ UNCHANGED <<vtext, cand, stub, ovars, xvars>>

VNext == VParse \/ VNormalize \/ VValidate \/ VValidateOnly


(***************************************************************************)
(* 32-bit words are records [hi, lo] of two 16-bit halves, so that no      *)
(* intermediate result leaves the integers the checker computes with.      *)
(***************************************************************************)
Word(hi, lo) == [hi |-> hi, lo |-> lo]

RECURSIVE Pow2(_)
Pow2(k) == IF k = 0 THEN 1 ELSE 2 * Pow2(k - 1)

\* a ^ b on 16-bit halves
RECURSIVE Xor16(_, _)
Xor16(a, b) ==
  IF a = 0 THEN b
  ELSE IF b = 0 THEN a
  ELSE ((a + b) % 2) + 2 * Xor16(a \div 2, b \div 2)

XorW(x, y) == Word(Xor16(x.hi, y.hi), Xor16(x.lo, y.lo))

\* x << k, for 0 < k < 32
ShlW(x, k) ==
  IF k >= 16
  THEN Word((x.lo * Pow2(k - 16)) % 65536, 0)
  ELSE Word((((x.hi * Pow2(k)) % 65536) + ((x.lo * Pow2(k)) \div 65536)) % 65536,
            (x.lo * Pow2(k)) % 65536)

\* x >>> k, for 16 <= k < 32
ShrW(x, k) == Word(0, x.hi \div Pow2(k - 16))

\* x + y, modulo 2^32
AddW(x, y) ==
  Word((x.hi + y.hi + ((x.lo + y.lo) \div 65536)) % 65536, (x.lo + y.lo) % 65536)

\* String.prototype.charCodeAt for the characters of names, dates, signs,
\* moods and personalities
charCodeAt(c) ==
  IF IndexIn(c, Upper) > 0 THEN 64 + IndexIn(c, Upper)
  ELSE IF IndexIn(c, Lower) > 0 THEN 96 + IndexIn(c, Lower)
  ELSE IF IndexIn(c, Digits) > 0 THEN 47 + IndexIn(c, Digits)
  ELSE IF c = " " THEN 32
  ELSE IF c = "'" THEN 39
  ELSE IF c = "|" THEN 124
  ELSE IF c = "LF" THEN 10
  ELSE 45

\* Math.imul(hash, 16777619), 16777619 being 2^24 + 403
imul(hash) ==
  Word(((hash.hi * 403) + ((hash.lo * 403) \div 65536) + ((hash.lo % 256) * 256)) % 65536,
       (hash.lo * 403) % 65536)

pipelineHashBody(input, s) ==
  [i |-> s.i + 1, hash |-> imul(XorW(s.hash, Word(0, charCodeAt(input[s.i]))))]

\* hashSeed of the pipeline: FNV-1a from 2166136261
pipelineHashSeed(input) ==
  ForEachChar(LAMBDA s : pipelineHashBody(input, s), input,
              [i |-> 1, hash |-> Word(33052, 40389)]).hash

\* DEFAULT_SAMPLING_PARAMS: temperature in hundredths; topP, topK,
\* repeatPenalty and stop are handed on unchanged
DEFAULT_SAMPLING_PARAMS == [temperature |-> 45, maxTokens |-> 3600, seed |-> Null]

S_Sean == <<"S","e","a","n">>

\* state.profile.saved and localDateISO() of the requests: one profile, one day
SavedProfile == [name |-> S_Sean, birthdate |-> <<"1","9","9","0","-","0","8","-","0","1">>]
Today == <<"2","0","2","4","-","0","5","-","0","1">>

\* `${dateISO}|${profile.name}|${profile.birthdate}`
seedBase(profile, dateISO) ==
  dateISO \o <<"|">> \o profile.name \o <<"|">> \o profile.birthdate

\* baseSeed of the requests
BaseSeed == pipelineHashSeed(seedBase(SavedProfile, Today))

\* buildSamplingParams(profile, dateISO, state), baseSeed being
\* hashSeed(base): every reading kept in state.reading is one of dateISO
buildSamplingParams(baseSeed, s) ==
  [DEFAULT_SAMPLING_PARAMS EXCEPT
     !.seed = AddW(baseSeed, Word(0, Len(s.history) + (IF s.current # 0 THEN 1 ELSE 0)))]

\* Math.round(maxTokens * 1.5)
roundHalfMore(maxTokens) == ((3 * maxTokens) + 1) \div 2

\* bumpSampling(sampling, attempt, reason) of ValidatePayloadStep.run
bumpSampling(sampling, attempt, reason) ==
  [sampling EXCEPT
     !.seed = IF @ = Null THEN Null ELSE AddW(@, Word((attempt * 1337) \div 65536, (attempt * 1337) % 65536)),
     !.maxTokens = IF reason = "truncation" THEN Min(roundHalfMore(@) + 200, 3600) ELSE @,
     !.temperature = IF attempt = 0 THEN @ ELSE Min(@, 35)]

(***************************************************************************)
(* The request path: the store and its reducer, the command bus with its   *)
(* AsyncQueue and undo stack, runReadingPipeline with its three steps,     *)
(* the repository and the embedded-model adapter.                          *)
(***************************************************************************)
MaxRequests == 2   \* GenerateReading tasks enqueued in one behaviour
RetryCap == 2      \* for (let attempt = 0; attempt < 2; attempt += 1)
UndoCap == 10      \* [state, ...this.undoStack].slice(0, 10)
HistoryCap == 10   \* [current, ...history].slice(0, 10)
ToastCap == 3      \* [...toasts, error].slice(-3)

\* The texts the backend and the stub generator return.
RawOutputs ==
  [valid |-> TextOf(FilledPayload),
   shape |-> TextOf(SetPath(FilledPayload, <<"meta">>, Undef)),
   truncated |-> BrokenText(P_eof),
   syntax |-> BrokenText(P_token),
   empty |-> EmptyText,
   stub |-> TextOf(StubPayload)]

BackendTexts == {"valid", "shape", "truncated", "syntax", "empty"}

ParseResults == [text \in DOMAIN RawOutputs |-> sanitizeAndParseDashboardPayload(RawOutputs[text])]

tryParse(payloadJson) == ParseResults[payloadJson]

isTruncationError(message) ==
  \E m \in {toLowerCase(message)} :
     \/ includes(m, <<"u","n","e","x","p","e","c","t","e","d"," ","e","o","f">>)
     \/ includes(m, <<"u","n","e","x","p","e","c","t","e","d"," ","e","n","d">>)
     \/ includes(m, <<"e","n","d"," ","o","f"," ","j","s","o","n">>)
     \/ includes(m, <<"u","n","t","e","r","m","i","n","a","t","e","d">>)

isSyntaxLikeError(message) ==
  \E m \in {toLowerCase(message)} :
     \/ includes(m, <<"p","r","o","p","e","r","t","y"," ","n","a","m","e">>)
     \/ includes(m, <<"s","t","r","i","n","g"," ","l","i","t","e","r","a","l">>)
     \/ includes(m, <<"i","n","v","a","l","i","d">>)
     \/ includes(m, <<"u","n","e","x","p","e","c","t","e","d"," ","t","o","k","e","n">>)

\* getDefaultState.  Of AppState the model keeps model.status,
\* busyFlags.loadingModel, whether profile.saved is set, reading.current and
\* reading.history (a reading is named by the task that generated it; 0 is
\* null) and busyFlags.generating.
getDefaultState ==
  [status |-> "unloaded", loadingModel |-> FALSE, saved |-> FALSE,
   current |-> 0, history |-> <<>>, generating |-> FALSE]

\* array.slice(-n)
SliceLast(a, n) == SubSeq(a, Max(1, Len(a) - n + 1), Len(a))

\* toasts: [...state.ui.toasts, event.error].slice(-3).  The states of the
\* request path are kept without ui.toasts; a state that has the field gets
\* the toast.
withToast(s, event) ==
  IF "toasts" \in DOMAIN s
  THEN [s EXCEPT !.toasts = SliceLast(Append(@, event.error), ToastCap)]
  ELSE s

\* toasts: []
withoutToasts(s) == IF "toasts" \in DOMAIN s THEN [s EXCEPT !.toasts = <<>>] ELSE s

reducer(s, event) ==
  CASE event.type = "StateRehydrated" -> event.state
    [] event.type = "ProfileSaved" -> [s EXCEPT !.saved = TRUE]
    [] event.type = "ReadingGenerationStarted" -> [s EXCEPT !.generating = TRUE]
    [] event.type = "ReadingGenerated" ->
         [s EXCEPT !.current = event.reading,
                   !.history = IF s.current # 0
                               THEN Slice(<<s.current>> \o s.history, HistoryCap)
                               ELSE s.history,
                   !.generating = FALSE]
    [] event.type = "ReadingGenerationFailed" ->
         withToast([s EXCEPT !.generating = FALSE], event)
    [] event.type = "ModelStatusChanged" ->
         [s EXCEPT !.status = event.status,
                   !.loadingModel = (event.status = "loading")]
    [] OTHER -> s

RECURSIVE reduceAll(_, _)
reduceAll(s, events) ==
  IF events = <<>> THEN s ELSE reduceAll(reducer(s, Head(events)), Tail(events))

defaultResetState(s) ==
  withoutToasts([s EXCEPT !.saved = FALSE, !.current = 0, !.history = <<>>,
                          !.generating = FALSE])

\* an undo stack that keeps every snapshot: used to show what slice(0, 10) gives
pushUndoAll(stack, s) == <<s>> \o stack

\* this.undoStack = [state, ...this.undoStack].slice(0, 10)
pushUndo(stack, s) == Slice(<<s>> \o stack, UndoCap)

Ready == {"loaded", "error"}

\* The task handleGenerateReading enqueues.  pc is where the task is:
\* "queued", "raf" (awaiting the animation frame), "wait" (in
\* waitForModelReady), "ready" (waitForModelReady resolved), "call" (awaiting
\* the adapter), "stream" (in emitStubStream), "ended" (runReadingPipeline
\* has settled), "fulfilled", "rejected".  result and payload say how
\* runReadingPipeline settled: with the payload parsed from the text named,
\* or with an error.
NewTask(s) ==
  [pc |-> "queued", snapshot |-> s, status |-> "none", effective |-> "none",
   step |-> "none", attempt |-> 0,
   invocations |-> 0, failure |-> "none", unusable |-> TRUE,
   result |-> "none", payload |-> "none", started |-> FALSE, generated |-> FALSE, failed |-> FALSE,
   context |-> DEFAULT_SAMPLING_PARAMS, sampling |-> DEFAULT_SAMPLING_PARAMS,
   rejected |-> DEFAULT_SAMPLING_PARAMS, prompt |-> "none", truncation |-> FALSE]

Settled(t) == t.pc \in {"fulfilled", "rejected"}

\* A chain that has lost the rejection handler: used to show what
\* .catch(() => undefined) gives the queue.
thenWithoutCatch(ts, i) == \A j \in 1..(i - 1) : ts[j].pc = "fulfilled"

\* A queue that calls the task at once: used to show what the chain gives.
callAtOnce(ts, i) == TRUE

\* this.chain = this.chain.then(task).catch(() => undefined): task i is
\* called once the chain before it has settled, fulfilled or rejected
chainSettled(ts, i) == IF i = 1 THEN TRUE ELSE Settled(ts[i - 1])

\* store.applyEvents notifies the subscriptions: a waitForModelReady listener
\* resolves on the first status that is loaded or error
Notified(ts, s) ==
  [i \in DOMAIN ts |->
     IF ts[i].pc = "wait" /\ s.status \in Ready
     THEN [ts[i] EXCEPT !.pc = "ready", !.effective = s.status]
     ELSE ts[i]]

\* Promise reactions run before the next timer, frame, backend answer or
\* user event is handled.
MicrotaskPending ==
  \E i \in DOMAIN tasks :
    \/ tasks[i].pc \in {"ready", "ended"}
    \/ tasks[i].pc = "queued" /\ chainSettled(tasks, i)

\* context.applyEvents of runtime.ts: store.applyEvents, then saveSnapshot,
\* which throws when the storage is full
ApplyEvents(events) ==
  /\ state' = reduceAll(state, events)
  /\ tasks' = Notified(tasks, state')

OInit ==
  /\ tauri \in BOOLEAN
  /\ state = getDefaultState
  /\ undoStack = <<>>
  /\ tasks = <<>>
  /\ calls = {}
  /\ loader = "init"
  /\ storage = "ok"

VIdle ==
  /\ vtext = EmptyText
  /\ cand = Null
  /\ vphase = "idle"
  /\ verror = Empty
  /\ stub = <<>>

RacesIdle == races = <<>>

StoreIdle ==
  /\ subscriptions = <<>>
  /\ pass = [before |-> <<>>, notified |-> <<>>, made |-> 0]

XIdle == RacesIdle /\ StoreIdle

OIdle ==
  /\ tauri = FALSE
  /\ state = getDefaultState
  /\ undoStack = <<>>
  /\ tasks = <<>>
  /\ calls = {}
  /\ loader = "init"
  /\ storage = "ok"

Ended(t, result, payload) ==
  [t EXCEPT !.pc = "ended", !.result = result, !.payload = payload]

\* A loop that never gives up: used to show what the attempt bound gives.
alwaysMoreAttempts(attempt) == TRUE

\* attempt < 2
MoreAttempts(attempt) == attempt < RetryCap

\* isTruncation and isSyntax for result.error.message
Rejection(message) ==
  [isTruncation |-> isTruncationError(message), isSyntax |-> isSyntaxLikeError(message)]

\* mode, nextSampling and nextPrompt for the repository.generate that follows
\* a rejection.  rejected is the sampling of the call whose text was rejected.
nextCall(t, rejection) ==
  [t EXCEPT !.pc = "generate",
            !.rejected = t.sampling,
            !.truncation = rejection.isTruncation,
            !.prompt = IF rejection.isTruncation THEN "regenerate"
                       ELSE IF rejection.isSyntax THEN "repair"
                       ELSE "regenerate",
            !.sampling = bumpSampling(t.context, t.attempt + 1,
                                      IF rejection.isTruncation THEN "truncation"
                                      ELSE "other")]

\* one pass of the loop, result being tryParse(currentJson)
Attempt(t, currentJson, result) ==
  IF result.ok
  THEN Ended(t, "validated", currentJson)
  ELSE CHOOSE next \in {nextCall(task, rejection) :
                          task \in {t}, rejection \in {Rejection(result.error)}} : TRUE

\* ValidatePayloadStep.run from the top of its loop to the next
\* repository.generate (pc "generate") or to the end of runReadingPipeline
Loop(t, currentJson) ==
  IF MoreAttempts(t.attempt)
  THEN CHOOSE next \in {Attempt(t, currentJson, result) :
                          result \in {tryParse(currentJson)}} : TRUE
  ELSE IF tryParse("stub").ok
       THEN Ended(t, "fallback", "stub")
       ELSE Ended(t, "stubDefect", "none")

\* runReadingPipeline from the return of repository.generate with `text`
Resume(t, text) ==
  IF t.step = "InvokeModel"
  THEN IF RawOutputs[text].empty
       THEN Ended(t, "noPayload", "none")
       ELSE Loop([t EXCEPT !.step = "ValidatePayload", !.attempt = 0], text)
  ELSE Loop([t EXCEPT !.attempt = @ + 1], text)

\* A repository whose catch rethrows: used to show what the catch gives.
generateRethrows(t) ==
  Ended(t, IF t.failure = "timeout" THEN "timeoutError" ELSE "backendError", "none")

\* the catch of repository.generate: stubAdapter.generate's text is returned
generateCatch(t) == Resume(t, "stub")

\* repository.generate once the effective status is known
withStatus(t, effective) ==
  IF effective = "loaded"
  THEN [t EXCEPT !.pc = "call", !.invocations = @ + 1]
  ELSE [t EXCEPT !.pc = "stream"]

\* repository.generate(profile, date, prompt, state.model.status, sampling)
\* up to its first wait for the store, the backend or a timer
generate(t) ==
  IF t.status \in {"loading", "unloaded"}
  THEN IF ~tauri THEN [t EXCEPT !.pc = "stream"]
       ELSE IF state.status \in Ready THEN withStatus(t, state.status)
       ELSE [t EXCEPT !.pc = "wait"]
  ELSE withStatus(t, t.status)

\* the task from the return of an awaited step to its next wait or to the
\* end of runReadingPipeline
Proceed(i, t, cs) ==
  LET g == IF t.pc = "generate" THEN generate(t) ELSE t
  IN /\ tasks' = [tasks EXCEPT ![i] = g]
     /\ calls' = IF g.pc = "call" THEN cs \cup {[task |-> i, awaited |-> TRUE]} ELSE cs
     /\ UNCHANGED <<state, undoStack>>

\* the task after runReadingPipeline returned or threw: pushUndo and
\* ReadingGenerated, or ReadingGenerationFailed from the catch; the task's
\* closure is released, and of the request only its seed is kept on record
TaskEnds(i) ==
  /\ tasks[i].pc = "ended"
  /\ LET t == tasks[i]
         ok == t.result \in {"validated", "fallback"}
         thrown == storage = "full"
         s1 == IF ok
               THEN reduceAll(state, <<[type |-> "ReadingGenerated", reading |-> i]>>)
               ELSE reduceAll(state, <<[type |-> "ReadingGenerationFailed"]>>)
         s2 == IF ok /\ thrown
               THEN reduceAll(s1, <<[type |-> "ReadingGenerationFailed"]>>)
               ELSE s1
         done == [NewTask(getDefaultState) EXCEPT
                    !.pc = IF thrown THEN "rejected" ELSE "fulfilled",
                    !.started = TRUE,
                    !.generated = ok,
                    !.failed = ~ok \/ thrown,
                    !.context = t.context]
     IN /\ state' = s2
        /\ undoStack' = IF ok THEN pushUndo(undoStack, t.snapshot) ELSE undoStack
        /\ tasks' = Notified([tasks EXCEPT ![i] = done], s2)
  /\ UNCHANGED <<tauri, calls, loader, storage, vvars, xvars>>

\* the queue calls the task: ReadingGenerationStarted and RouteChanged
TaskStart(i) ==
  /\ tasks[i].pc = "queued"
  /\ chainSettled(tasks, i)
  /\ state' = reduceAll(state, <<[type |-> "ReadingGenerationStarted"],
                                 [type |-> "RouteChanged", route |-> "reading"]>>)
  /\ tasks' = Notified([tasks EXCEPT ![i].pc = IF storage = "full" THEN "rejected" ELSE "raf",
                                     ![i].snapshot = IF storage = "full" THEN getDefaultState ELSE @,
                                     ![i].started = TRUE], state')
  /\ UNCHANGED <<tauri, undoStack, calls, loader, storage, vvars, xvars>>

\* the animation frame: runReadingPipeline(state.profile.saved, date, getState())
RafFires(i) ==
  /\ ~MicrotaskPending
  /\ tasks[i].pc = "raf"
  /\ Proceed(i, [tasks[i] EXCEPT !.status = state.status, !.step = "InvokeModel",
                                !.context = buildSamplingParams(BaseSeed, state),
                                !.sampling = buildSamplingParams(BaseSeed, state),
                                !.prompt = "initial",
                                !.pc = "generate"], calls)
  /\ UNCHANGED <<tauri, loader, storage, vvars, xvars>>

\* waitForModelReady resolved
ModelReady(i) ==
  /\ tasks[i].pc = "ready"
  /\ LET g == withStatus(tasks[i], tasks[i].effective)
     IN /\ tasks' = [tasks EXCEPT ![i] = g]
        /\ calls' = IF g.pc = "call"
                    THEN calls \cup {[task |-> i, awaited |-> TRUE]}
                    ELSE calls
  /\ UNCHANGED <<tauri, state, undoStack, loader, storage, vvars, xvars>>

\* emitStubStream ends
StreamEnds(i) ==
  /\ ~MicrotaskPending
  /\ tasks[i].pc = "stream"
  /\ Proceed(i, Resume(tasks[i], "stub"), calls)
  /\ UNCHANGED <<tauri, loader, storage, vvars, xvars>>

\* invoke("generate_dashboard_payload") resolves with a text
BackendAnswers(c, text) ==
  /\ ~MicrotaskPending
  /\ c \in calls
  /\ IF c.awaited
     THEN LET t == [tasks[c.task] EXCEPT !.unusable = @ /\ ~tryParse(text).ok]
          IN Proceed(c.task, Resume(t, text), calls \ {c})
     ELSE /\ calls' = calls \ {c}
          /\ UNCHANGED <<state, undoStack, tasks>>
  /\ UNCHANGED <<tauri, loader, storage, vvars, xvars>>

\* invoke("generate_dashboard_payload") rejects
BackendRejects(c) ==
  /\ ~MicrotaskPending
  /\ c \in calls
  /\ IF c.awaited
     THEN Proceed(c.task, generateCatch([tasks[c.task] EXCEPT !.failure = "rejected"]),
                  calls \ {c})
     ELSE /\ calls' = calls \ {c}
          /\ UNCHANGED <<state, undoStack, tasks>>
  /\ UNCHANGED <<tauri, loader, storage, vvars, xvars>>

\* the adapter's 180 s timer fires first: the race rejects, the invoke goes on
TimeoutFires(c) ==
  /\ ~MicrotaskPending
  /\ c \in calls
  /\ c.awaited
  /\ Proceed(c.task, generateCatch([tasks[c.task] EXCEPT !.failure = "timeout"]),
             (calls \ {c}) \cup {[c EXCEPT !.awaited = FALSE]})
  /\ UNCHANGED <<tauri, loader, storage, vvars, xvars>>

\* handleGenerateReading
handleGenerateReading(s) ==
  IF ~s.saved
  THEN /\ state' = reduceAll(s, <<[type |-> "ReadingGenerationFailed"]>>)
       /\ tasks' = Notified(tasks, state')
  ELSE /\ state' = s
       /\ tasks' = Notified(Append(tasks, NewTask(s)), s)

\* execute({ type: "GenerateReading" })
GenerateReading ==
  /\ ~MicrotaskPending
  /\ state.saved => Len(tasks) < MaxRequests
  /\ handleGenerateReading(state)
  /\ UNCHANGED <<tauri, undoStack, calls, loader, storage, vvars, xvars>>

\* execute({ type: "SubmitProfile", profile }); valid is profileSpec's verdict
SubmitProfile(valid) ==
  /\ ~MicrotaskPending
  /\ IF ~valid
     THEN ApplyEvents(<<[type |-> "ProfileValidationFailed"]>>)
     ELSE LET s1 == reduceAll(state, <<[type |-> "ProfileValidated"],
                                       [type |-> "ProfileSaved"],
                                       [type |-> "RouteChanged", route |-> "reading"]>>)
          IN IF storage = "full"
             THEN /\ state' = s1
                  /\ tasks' = Notified(tasks, s1)
             ELSE /\ Len(tasks) < MaxRequests
                  /\ handleGenerateReading(s1)
  /\ UNCHANGED <<tauri, undoStack, calls, loader, storage, vvars, xvars>>

\* execute({ type: "Reset" })
Reset ==
  /\ ~MicrotaskPending
  /\ ApplyEvents(<<[type |-> "StateRehydrated", state |-> defaultResetState(state)]>>)
  /\ UNCHANGED <<tauri, undoStack, calls, loader, storage, vvars, xvars>>

\* execute({ type: "Undo" }): undoLast
Undo ==
  /\ ~MicrotaskPending
  /\ IF undoStack # <<>>
     THEN /\ undoStack' = Tail(undoStack)
          /\ ApplyEvents(<<[type |-> "StateRehydrated", state |-> Head(undoStack)]>>)
     ELSE UNCHANGED <<undoStack, state, tasks>>
  /\ UNCHANGED <<tauri, calls, loader, storage, vvars, xvars>>

\* initModel: invoke("init_model") settles; outside Tauri the invoke rejects
ModelInit(status) ==
  /\ ~MicrotaskPending
  /\ loader = "init"
  /\ ~tauri => status = "error"
  /\ ApplyEvents(<<[type |-> "ModelStatusChanged", status |-> status]>>)
  /\ loader' = IF status = "loading" THEN "loading" ELSE "settled"
  /\ UNCHANGED <<tauri, undoStack, calls, storage, vvars, xvars>>

\* the "model:status" event when the loader has finished
ModelStatusEvent(status) ==
  /\ ~MicrotaskPending
  /\ loader = "loading"
  /\ ApplyEvents(<<[type |-> "ModelStatusChanged", status |-> status]>>)
  /\ loader' = "settled"
  /\ UNCHANGED <<tauri, undoStack, calls, storage, vvars, xvars>>

\* localStorage reaches its quota: from now on setItem throws
StorageFills ==
  /\ ~MicrotaskPending
  /\ storage = "ok"
  /\ storage' = "full"
  /\ UNCHANGED <<tauri, state, undoStack, tasks, calls, loader, vvars, xvars>>

Internal ==
  \E i \in DOMAIN tasks :
    TaskStart(i) \/ RafFires(i) \/ ModelReady(i) \/ StreamEnds(i) \/ TaskEnds(i)

BackendSettles ==
  \E c \in calls :
    \/ \E text \in BackendTexts : BackendAnswers(c, text)
    \/ BackendRejects(c)
    \/ TimeoutFires(c)

LoaderSettles ==
  \/ \E status \in {"loading", "loaded", "error"} : ModelInit(status)
  \/ \E status \in Ready : ModelStatusEvent(status)

Commands ==
  \/ GenerateReading
  \/ \E valid \in BOOLEAN : SubmitProfile(valid)
  \/ Reset
  \/ Undo

Next ==
  \/ \E i \in DOMAIN tasks : TaskStart(i)
  \/ \E i \in DOMAIN tasks : RafFires(i)
  \/ \E i \in DOMAIN tasks : ModelReady(i)
  \/ \E i \in DOMAIN tasks : StreamEnds(i)
  \/ \E i \in DOMAIN tasks : TaskEnds(i)
  \/ \E c \in calls, text \in BackendTexts : BackendAnswers(c, text)
  \/ \E c \in calls : BackendRejects(c)
  \/ \E c \in calls : TimeoutFires(c)
  \/ \E status \in {"loading", "loaded", "error"} : ModelInit(status)
  \/ \E status \in Ready : ModelStatusEvent(status)
  \/ GenerateReading
  \/ \E valid \in BOOLEAN : SubmitProfile(valid)
  \/ Reset
  \/ Undo
  \/ StorageFills

Init == OInit /\ VIdle /\ XIdle

Spec == Init /\ [][Next]_vars

\* The same program on a storage that never fills, with the scheduling the
\* runtime gives: a pending promise reaction, animation frame or stream
\* timer runs; an invocation of the backend answers, fails or times out;
\* the model loader reports its status.  Commands are the user's to give.
FairNext ==
  \/ \E i \in DOMAIN tasks : TaskStart(i)
  \/ \E i \in DOMAIN tasks : RafFires(i)
  \/ \E i \in DOMAIN tasks : ModelReady(i)
  \/ \E i \in DOMAIN tasks : StreamEnds(i)
  \/ \E i \in DOMAIN tasks : TaskEnds(i)
  \/ \E c \in calls, text \in BackendTexts : BackendAnswers(c, text)
  \/ \E c \in calls : BackendRejects(c)
  \/ \E c \in calls : TimeoutFires(c)
  \/ \E status \in {"loading", "loaded", "error"} : ModelInit(status)
  \/ \E status \in Ready : ModelStatusEvent(status)
  \/ GenerateReading
  \/ \E valid \in BOOLEAN : SubmitProfile(valid)
  \/ Reset
  \/ Undo

FairSpec ==
  /\ Init
  /\ [][FairNext]_vars
  /\ WF_vars(Internal)
  /\ WF_vars(BackendSettles)
  /\ WF_vars(LoaderSettles)

InitV == VInit /\ OIdle /\ XIdle

SpecV == InitV /\ [][VNext]_vars

(***************************************************************************)
(* The shape of a payload.                                                 *)
(***************************************************************************)
At2(p, a, b) == Get(Get(p, a), b)
HasLength(value, n) == isArray(value) /\ Len(value.v) = n
IntegerIn(value, min, max) == isInteger(value) /\ inRange(value, min, max)

BestHoursExact(p) == HasLength(At2(p, "today", "bestHours"), 2)
SectionsCanonical(p) ==
  LET sections == At2(p, "today", "sections")
  IN /\ HasLength(sections, 4)
     /\ \A i \in 1..4 : Get(sections.v[i], "title") = Str(CanonicalTitles[i])
RatingsInteger(p) ==
  \A k \in {"love", "work", "money", "health"} :
    IntegerIn(Get(At2(p, "today", "ratings"), k), 0, 5)
EnergyScoreInteger(p) == IntegerIn(At2(p, "today", "energyScore"), 0, 100)
TransitsBounded(p) ==
  LET transits == At2(p, "cosmicWeather", "transits")
  IN /\ isArray(transits)
     /\ Len(transits.v) <= 2
     /\ \A i \in 1..Len(transits.v) :
          LET tone == Get(transits.v[i], "tone")
          IN isString(tone) /\ tone.v \in transitTones
AffinitiesExact(p) ==
  /\ HasLength(At2(p, "compatibility", "bestFlowWith"), 2)
  /\ HasLength(At2(p, "compatibility", "handleGentlyWith"), 1)
StartersExact(p) == HasLength(At2(p, "journalRitual", "starters"), 3)
KeyDatesExact(p) == HasLength(At2(p, "month", "keyDates"), 3)
QuartersCanonical(p) ==
  LET quarters == At2(p, "year", "quarters")
  IN /\ HasLength(quarters, 4)
     /\ \A i \in 1..4 : Get(quarters.v[i], "label") = Str(CanonicalQuarters[i])
PowerMonthsExact(p) == HasLength(At2(p, "year", "powerMonths"), 2)

Conforms(p) ==
  /\ BestHoursExact(p) /\ SectionsCanonical(p) /\ RatingsInteger(p)
  /\ EnergyScoreInteger(p) /\ TransitsBounded(p) /\ AffinitiesExact(p)
  /\ StartersExact(p) /\ KeyDatesExact(p) /\ QuartersCanonical(p)
  /\ PowerMonthsExact(p)

RECURSIVE SomeTextHasLineBreak(_)
SomeTextHasLineBreak(value) ==
  CASE value.t = "str" -> hasLineBreak(value.v)
    [] value.t = "arr" -> \E i \in 1..Len(value.v) : SomeTextHasLineBreak(value.v[i])
    [] value.t = "obj" -> \E k \in DOMAIN value.v : SomeTextHasLineBreak(value.v[k])
    [] OTHER -> FALSE

(***************************************************************************)
(* C8.  Every payload accepted by sanitizeAndParseDashboardPayload has     *)
(* exactly 2 bestHours, the 4 sections Focus, Relationships, Action,       *)
(* Reflection in that order, integer ratings in 0..5, an integer           *)
(* energyScore in 0..100, at most 2 transits with a tone of the            *)
(* enumeration, 2 bestFlowWith, 1 handleGentlyWith, 3 starters, 3          *)
(* keyDates, the quarters Q1..Q4 in order and 2 powerMonths.               *)
(***************************************************************************)
C8_AcceptedConforms == vphase = "accepted" => Conforms(cand)

\* a candidate that did not conform as parsed is accepted once normalized
C8_Witness == vphase = "accepted" /\ ~Conforms(vtext.value)

(***************************************************************************)
(* C9.  Every text field of an accepted payload is a single-line string:   *)
(* a candidate in which a string field contains a line break is never      *)
(* accepted.                                                               *)
(***************************************************************************)
C9_AcceptedSingleLine == vphase = "accepted" => ~SomeTextHasLineBreak(cand)

(***************************************************************************)
(* C10.  validateDashboardPayload on its own, without normalizeDashboard,  *)
(* rejects every object that violates a declared cardinality, order,       *)
(* range or enumeration, a non-integer energyScore included.               *)
(***************************************************************************)
C10_ValidatorAloneRejects == vphase = "rawAccepted" => Conforms(cand)

(***************************************************************************)
(* C1.  For every backend output, the empty string included,               *)
(* runReadingPipeline resolves with a payload that passed validation or    *)
(* rejects with a backend, timeout or fallback-defect failure: output that *)
(* fails sanitization or validation never makes the request reject.        *)
(***************************************************************************)
C1_OutputNeverRejects ==
  \A i \in DOMAIN tasks :
    tasks[i].pc = "ended" =>
      tasks[i].result \in {"validated", "fallback", "backendError", "timeoutError",
                           "stubDefect"}

(***************************************************************************)
(* C2.  If every backend invocation of a request returns text that cannot  *)
(* be turned into a valid payload, the request ends after its attempt      *)
(* budget and resolves with the fallback generator's validated payload.    *)
(***************************************************************************)
C2_GarbageEndsInFallback ==
  \A i \in DOMAIN tasks :
    (/\ tasks[i].pc = "ended"
     /\ tasks[i].invocations >= 1
     /\ tasks[i].failure = "none"
     /\ tasks[i].unusable)
    => tasks[i].result = "fallback" /\ tasks[i].payload = "stub"

C5_EveryRequestFinishes ==
  \A i \in 1..MaxRequests :
    [](i \in DOMAIN tasks =>
         <>(/\ i \in DOMAIN tasks
            /\ Settled(tasks[i])
            /\ tasks[i].started
            /\ tasks[i].generated # tasks[i].failed))

(***************************************************************************)
(* C6.  Tasks run one at a time in the order they were enqueued: a task    *)
(* starts only after the task enqueued before it has settled, fulfilled or *)
(* rejected, and a task that rejects never prevents the next from          *)
(* starting.                                                               *)
(***************************************************************************)
C6_OneAtATimeInOrder ==
  \A j \in DOMAIN tasks :
    /\ \A i \in 1..(j - 1) : tasks[j].pc # "queued" => Settled(tasks[i])
    /\ (tasks[j].pc = "queued" /\ \A i \in 1..(j - 1) : Settled(tasks[i]))
         => ENABLED TaskStart(j)

\* a task rejected and the task enqueued after it has started
C6_Witness ==
  \E j \in DOMAIN tasks :
    /\ j > 1
    /\ tasks[j - 1].pc = "rejected"
    /\ tasks[j].started

(***************************************************************************)
(* C7, as stated.  At most one backend invocation is outstanding at any    *)
(* time, one whose caller stopped waiting on timeout included.             *)
(***************************************************************************)
C7_OneOutstanding == Cardinality(calls) <= 1

(***************************************************************************)
(* C7, amended.  At most one backend invocation is awaited at any time,    *)
(* by the one task that is in its call, and the invocations of one request *)
(* never overlap; an invocation abandoned on timeout may still be running  *)
(* when a later request invokes the backend.                               *)
(***************************************************************************)
C7_OneAwaited ==
  /\ Cardinality({c \in calls : c.awaited}) <= 1
  /\ \A c \in calls : c.awaited => tasks[c.task].pc = "call"
  /\ \A c1, c2 \in calls : c1.task = c2.task => c1 = c2

\* a timed-out invocation still runs while a later request awaits its own
C7_Witness ==
  \E c1, c2 \in calls : ~c1.awaited /\ c2.awaited /\ c1.task < c2.task

(***************************************************************************)
(* Part 3  Runs of the sanitizer, one step at a time, on texts as          *)
(*         sequences of characters.  vtext is the raw text, cand the text  *)
(*         after the steps taken so far and vphase the name the code gives *)
(*         to that text.                                                   *)
(***************************************************************************)

MaxLen == 4
JsonDepth == 2

\* the characters of the short raw texts
SAlphabet == {"{", "}", "[", "]", QUOTE, ",", ":", BACKSLASH, " ", "a", "BT"}

RECURSIVE TextsOfLength(_)
TextsOfLength(n) ==
  IF n = 0 THEN {<<>>}
  ELSE {Append(text, c) : text \in TextsOfLength(n - 1), c \in SAlphabet}

ShortTexts == UNION {TextsOfLength(n) : n \in 0..MaxLen}

Quoted(s) == <<QUOTE>> \o s \o <<QUOTE>>
Member(key, text) == Quoted(key) \o <<":">> \o text
Braced(text) == <<"{">> \o text \o <<"}">>
Bracketed(text) == <<"[">> \o text \o <<"]">>
Listed(a, b) == a \o <<",">> \o b

\* well-formed JSON texts: numbers, strings, arrays and objects nested up
\* to JsonDepth
JsonAtoms == {<<"1">>, Quoted(<<"{">>), Quoted(<<"}">>), Braced(<<>>)}

RECURSIVE JsonTexts(_)
JsonTexts(d) ==
  IF d = 0 THEN JsonAtoms
  ELSE LET inner == JsonTexts(d - 1)
       IN inner
          \cup {Bracketed(v) : v \in inner}
          \cup {Braced(Member(<<"a">>, v)) : v \in inner}
          \cup {Bracketed(Listed(v, w)) : v \in inner, w \in inner}
          \cup {Braced(Listed(Member(<<"a">>, v), Member(<<"b">>, w))) : v \in inner, w \in inner}

\* objects with at most one member each, and the key and the value of it
RootObjects ==
  {[text |-> Braced(<<>>), key |-> <<>>, value |-> Undef]}
  \cup {[text |-> Braced(Member(<<k>>, <<"1">>)), key |-> <<k>>, value |-> Num(1)]
          : k \in {"a", "b"}}
  \cup {[text |-> Braced(Member(<<k>>, Quoted(<<"x">>))), key |-> <<k>>, value |-> Str(<<"x">>)]
          : k \in {"a", "b"}}

Separators == {<<",">>, <<",", " ">>, <<" ", ",", "LF">>}

\* two objects side by side at the root: {...},{...}
TwoRootObjects(first, sep, second) == first.text \o sep \o second.text

TwoRootTexts ==
  {TwoRootObjects(first, sep, second) :
     first \in RootObjects, sep \in Separators, second \in RootObjects}

\* what a model wraps around its answer
Prefixes == {<<>>,
             FENCE \o <<"j", "s", "o", "n", "LF">>,
             FENCE \o <<"J", "S", "O", "N", " ">>,
             FENCE \o <<"LF">>,
             <<" ", "O", "k", ":", " ">>}
Suffixes == {<<>>, <<"LF">> \o FENCE, <<"LF">> \o FENCE \o <<"LF">>, <<" ", "e", "n", "d">>,
             <<" ">> \o Braced(<<>>), <<"}">>}

\* answers: an object as it should be, and objects with the defects the
\* steps repair
Bodies ==
  { Braced(Member(<<"a">>, <<"1">>)),
    Braced(<<"a", ":", "1", ",", " ", "b", "_", "2", " ", ":", "[", "1", ",", "]", ",">>),
    Braced(Member(<<"a">>, Quoted(<<"x">> \o FENCE \o <<"y">>))),
    Braced(Member(<<"a">>, Quoted(<<"}", ",", "{", BACKSLASH, QUOTE, ",", "}">>))),
    Braced(Listed(Member(<<"a">>, <<"1">>), Braced(Member(<<"b">>, <<"2">>)))),
    Braced(Listed(Member(<<"a">>, <<"1">>), <<" ">> \o Braced(Member(<<"b">>, Braced(<<>>))))),
    <<"{">> \o Member(<<"a">>, <<"{">> \o Member(<<"b">>, <<"1">>)),
    <<"{">> \o Member(<<"a">>, Braced(Member(<<"b">>, <<"1">>))),
    <<"{">> \o Member(<<"a">>, <<QUOTE, "x">>),
    Braced(Member(<<"a">>, <<"1">>)) \o <<",">> \o Braced(<<"b", ":", "2">>) }

WrappedTexts == {prefix \o body \o suffix : prefix \in Prefixes, body \in Bodies, suffix \in Suffixes}

RawTexts == ShortTexts \cup JsonTexts(JsonDepth) \cup TwoRootTexts \cup WrappedTexts

SInit ==
  /\ vtext \in RawTexts
  /\ cand = vtext
  /\ vphase = "raw"
  /\ verror = Empty
  /\ stub = <<>>

\* const trimmed = raw.trim()
STrim ==
  /\ vphase = "raw"
  /\ cand' = trim(cand)
  /\ vphase' = "trimmed"
  /\ UNCHANGED <<vtext, verror, stub, ovars, xvars>>

\* const noFences = stripCodeFences(trimmed)
SStripCodeFences ==
  /\ vphase = "trimmed"
  /\ cand' = stripCodeFences(cand)
  /\ vphase' = "noFences"
  /\ UNCHANGED <<vtext, verror, stub, ovars, xvars>>

\* const extractedJson = slice ?? noFences
SExtractJsonSlice ==
  /\ vphase = "noFences"
  /\ cand' = SliceOrText(extractJsonSlice(cand), cand)
  /\ vphase' = "extractedJson"
  /\ UNCHANGED <<vtext, verror, stub, ovars, xvars>>

\* removeTrailingCommas(extractedJson)
SRemoveTrailingCommas ==
  /\ vphase = "extractedJson"
  /\ cand' = removeTrailingCommas(cand)
  /\ vphase' = "withoutCommas"
  /\ UNCHANGED <<vtext, verror, stub, ovars, xvars>>

\* quoteUnquotedKeys(withoutCommas)
SQuoteUnquotedKeys ==
  /\ vphase = "withoutCommas"
  /\ cand' = quoteUnquotedKeys(cand)
  /\ vphase' = "quotedKeys"
  /\ UNCHANGED <<vtext, verror, stub, ovars, xvars>>

\* mergeRootObjects(quotedKeys)
SMergeRootObjects ==
  /\ vphase = "quotedKeys"
  /\ cand' = mergeRootObjects(cand)
  /\ vphase' = "merged"
  /\ UNCHANGED <<vtext, verror, stub, ovars, xvars>>

\* unwrapAnonymousRootObjects(merged)
SUnwrapAnonymousRootObjects ==
  /\ vphase = "merged"
  /\ cand' = unwrapAnonymousRootObjects(cand)
  /\ vphase' = "unwrapped"
  /\ UNCHANGED <<vtext, verror, stub, ovars, xvars>>

\* closeMissingFinalBrace(unwrapped)
SCloseMissingFinalBrace ==
  /\ vphase = "unwrapped"
  /\ cand' = closeMissingFinalBrace(cand)
  /\ vphase' = "braceFixed"
  /\ UNCHANGED <<vtext, verror, stub, ovars, xvars>>

SNext ==
  \/ STrim
  \/ SStripCodeFences
  \/ SExtractJsonSlice
  \/ SRemoveTrailingCommas
  \/ SQuoteUnquotedKeys
  \/ SMergeRootObjects
  \/ SUnwrapAnonymousRootObjects
  \/ SCloseMissingFinalBrace

InitS == SInit /\ OIdle /\ XIdle

SpecS == InitS /\ [][SNext]_vars

\* extractFirstJsonObject: the span from the first "{" to the "}" that brings
\* the depth back to zero, strings skipped; found is FALSE for null
RECURSIVE firstObjectEnd(_, _, _, _, _)
firstObjectEnd(text, i, inString, escaped, depth) ==
  IF i > Len(text) THEN 0
  ELSE IF inString
       THEN firstObjectEnd(text, i + 1, StillInString(escaped, text[i]),
                           NowEscaped(escaped, text[i]), depth)
       ELSE IF text[i] = QUOTE THEN firstObjectEnd(text, i + 1, TRUE, FALSE, depth)
       ELSE IF text[i] = "{" THEN firstObjectEnd(text, i + 1, FALSE, FALSE, depth + 1)
       ELSE IF text[i] = "}"
            THEN IF depth - 1 = 0 THEN i
                 ELSE firstObjectEnd(text, i + 1, FALSE, FALSE, depth - 1)
       ELSE firstObjectEnd(text, i + 1, FALSE, FALSE, depth)

extractFirstJsonObject(text) ==
  LET startIndex == indexOf(text, "{")
      end == IF startIndex = 0 THEN 0 ELSE firstObjectEnd(text, startIndex, FALSE, FALSE, 0)
  IN IF end = 0 THEN [found |-> FALSE, span |-> <<>>]
     ELSE [found |-> TRUE, span |-> SubSeq(text, startIndex, end)]

\* the text the steps taken so far should have produced
noFencesOf(raw) == stripCodeFences(trim(raw))
extractedJsonOf(raw) == SliceOrText(extractJsonSlice(noFencesOf(raw)), noFencesOf(raw))
unwrappedOf(raw) ==
  unwrapAnonymousRootObjects(mergeRootObjects(quoteUnquotedKeys(
    removeTrailingCommas(extractedJsonOf(raw)))))

(***************************************************************************)
(* The stub generator (adapters/stubAdapter.ts).                           *)
(***************************************************************************)
\* hash += (hash << 1) + (hash << 4) + (hash << 7) + (hash << 8) + (hash << 24)
hashMix(hash) ==
  AddW(hash, AddW(ShlW(hash, 1), AddW(ShlW(hash, 4), AddW(ShlW(hash, 7),
       AddW(ShlW(hash, 8), ShlW(hash, 24))))))

hashSeedBody(value, s) ==
  [i |-> s.i + 1, hash |-> hashMix(XorW(s.hash, Word(0, charCodeAt(value[s.i]))))]

\* hashSeed(value), from 2166136261
hashSeed(value) ==
  ForEachChar(LAMBDA s : hashSeedBody(value, s), value, [i |-> 1, hash |-> Word(33052, 40389)]).hash

\* one call of the generator seeded() returns: the new state
xorshift(word) ==
  XorW(XorW(XorW(word, ShlW(word, 13)), ShrW(XorW(word, ShlW(word, 13)), 17)),
       ShlW(XorW(XorW(word, ShlW(word, 13)), ShrW(XorW(word, ShlW(word, 13)), 17)), 5))

\* (word >>> 0) % 10000, the number the call returns in ten-thousandths
rngValue(word) == (((word.hi % 10000) * 5536) + word.lo) % 10000

\* the states after the first n calls of seeded(seed), from seed + 0x9e3779b9
RECURSIVE rngStatesFrom(_, _)
rngStatesFrom(states, n) ==
  IF Len(states) > n THEN Tail(states)
  ELSE rngStatesFrom(Append(states, xorshift(states[Len(states)])), n)

rngStates(seed, n) == rngStatesFrom(<<AddW(seed, Word(40503, 31161))>>, n)

\* what the first n calls of rng() return, in ten-thousandths
seeded(seed, n) == [k \in 1..n |-> rngValue(rngStates(seed, n)[k])]

\* Math.floor(rng() * n)
floorTimes(r, n) == (r * n) \div 10000

\* pick(rng, values)
pick(r, values) == values[(floorTimes(r, Len(values)) % Len(values)) + 1]

Swap(values, i, j) == [values EXCEPT ![i] = values[j], ![j] = values[i]]

\* shuffle(rng, values) for four values: i = 3, 2, 1 and j = floor(rng() * (i + 1))
shuffle(r3, r2, r1, values) ==
  Swap(Swap(Swap(values, 4, floorTimes(r3, 4) + 1), 3, floorTimes(r2, 3) + 1),
       2, floorTimes(r1, 2) + 1)

\* a mutant of slice(0, 2): the whole shuffled list
sliceAll(values) == values

\* shuffle(...).slice(0, 2)
sliceTwo(values) == SubSeq(values, 1, 2)

\* the headlines pick draws from
Titles ==
  << <<"S","o","f","t"," ","f","o","c","u","s",","," ","c","l","e","a","r"," ","i","n","t","e","n","t","i","o","n">>,
     <<"T","h","e"," ","h","u","s","h"," ","b","e","f","o","r","e"," ","a"," ","b","r","i","g","h","t"," ","i","d","e","a">>,
     <<"A"," ","h","o","r","i","z","o","n"," ","y","o","u"," ","c","a","n"," ","t","r","u","s","t">>,
     <<"T","h","e"," ","s","p","a","r","k"," ","b","e","n","e","a","t","h"," ","s","t","i","l","l","n","e","s","s">>,
     <<"A"," ","g","r","a","c","e","f","u","l"," ","r","e","t","u","r","n"," ","t","o"," ","c","e","n","t","e","r">> >>

\* the three sentences of the message, for a mood, a sign and a personality
openings(mood) ==
  << <<"T","h","e"," ","d","a","y"," ","o","p","e","n","s"," ","w","i","t","h"," ","a"," ">> \o toLowerCase(mood) \o <<" ","c","u","r","r","e","n","t"," ","t","h","a","t"," ","i","n","v","i","t","e","s"," ","g","e","n","t","l","e","r"," ","c","h","o","i","c","e","s",".">>,
     <<"A"," ">> \o toLowerCase(mood) \o <<" ","u","n","d","e","r","t","o","n","e"," ","g","u","i","d","e","s"," ","y","o","u","r"," ","t","i","m","i","n","g"," ","a","n","d"," ","a","t","t","e","n","t","i","o","n",".">>,
     <<"Y","o","u"," ","m","o","v","e"," ","t","h","r","o","u","g","h"," ","a"," ">> \o toLowerCase(mood) \o <<" ","r","h","y","t","h","m"," ","t","h","a","t"," ","r","e","w","a","r","d","s"," ","p","a","t","i","e","n","c","e",".">> >>

middles(sign, personality) ==
  << <<"A","s"," ">> \o sign \o <<","," ","y","o","u","r"," ">> \o toLowerCase(personality) \o <<" ","n","a","t","u","r","e"," ","n","o","t","i","c","e","s"," ","s","u","b","t","l","e"," ","s","h","i","f","t","s"," ","f","i","r","s","t",".">>,
     <<"Y","o","u","r"," ">> \o toLowerCase(personality) \o <<" ","i","n","s","t","i","n","c","t","s"," ","h","i","g","h","l","i","g","h","t"," ","w","h","a","t"," ","w","a","n","t","s"," ","t","o"," ","s","o","f","t","e","n",".">>,
     <<"T","h","e"," ">> \o toLowerCase(personality) \o <<" ","i","n"," ","y","o","u"," ","t","r","a","n","s","l","a","t","e","s"," ","i","n","t","u","i","t","i","o","n"," ","i","n","t","o"," ","o","n","e"," ","c","l","e","a","r"," ","s","t","e","p",".">> >>

\* the closing sentences
closers ==
  << <<"L","e","t"," ","s","m","a","l","l"," ","r","i","t","u","a","l","s"," ","g","r","o","u","n","d"," ","y","o","u",","," ","a","n","d"," ","l","e","t"," ","c","l","a","r","i","t","y"," ","a","r","r","i","v","e"," ","i","n"," ","l","a","y","e","r","s",".">>,
     <<"P","a","u","s","e"," ","b","e","f","o","r","e"," ","r","e","p","l","y","i","n","g"," ","a","n","d"," ","y","o","u","r"," ","b","e","s","t"," ","p","h","r","a","s","i","n","g"," ","w","i","l","l"," ","s","u","r","f","a","c","e",".">>,
     <<"C","h","o","o","s","e"," ","o","n","e"," ","g","e","n","t","l","e"," ","a","c","t","i","o","n"," ","t","h","a","t"," ","h","o","n","o","r","s"," ","y","o","u","r"," ","e","n","e","r","g","y",","," ","a","n","d"," ","l","e","t"," ","t","h","a","t"," ","b","e"," ","e","n","o","u","g","h",".">> >>

\* today.theme
Themes ==
  << <<"C","l","a","r","i","t","y">>,
     <<"P","a","t","i","e","n","c","e">>,
     <<"W","a","r","m","t","h">>,
     <<"A","l","i","g","n","m","e","n","t">>,
     <<"E","a","s","e">> >>

\* today.lucky.color
Colors ==
  << <<"G","o","l","d">>,
     <<"M","o","o","n","l","i","t"," ","I","n","d","i","g","o">>,
     <<"S","o","f","t"," ","L","a","v","e","n","d","e","r">>,
     <<"S","e","a","-","g","l","a","s","s"," ","T","e","a","l">> >>

\* today.lucky.symbol
Symbols ==
  << <<"STAR">>,
     <<"CRESCENT">>,
     <<"FOURSTAR">> >>

\* cosmicWeather.moon.phase
MoonPhases ==
  << <<"F","i","r","s","t"," ","Q","u","a","r","t","e","r">>,
     <<"W","a","x","i","n","g"," ","C","r","e","s","c","e","n","t">>,
     <<"F","u","l","l"," ","M","o","o","n">>,
     <<"N","e","w"," ","M","o","o","n">> >>

\* cosmicWeather.moon.sign
MoonSigns ==
  << <<"C","a","n","c","e","r">>,
     <<"L","i","b","r","a">>,
     <<"S","c","o","r","p","i","o">>,
     <<"T","a","u","r","u","s">> >>

\* compatibility.bestFlowWith, before the shuffle
FlowSigns ==
  << <<"A","r","i","e","s">>,
     <<"G","e","m","i","n","i">>,
     <<"L","i","b","r","a">>,
     <<"S","a","g","i","t","t","a","r","i","u","s">> >>

\* compatibility.handleGentlyWith
GentleSigns ==
  << <<"T","a","u","r","u","s">>,
     <<"S","c","o","r","p","i","o">>,
     <<"C","a","p","r","i","c","o","r","n">> >>

\* the property names of the payload, in an order that agrees with the order
\* in which every object of the payload is written
KeyOrder ==
  << "meta", "dateISO", "localeDateLabel", "generatedAtISO", "phase", "sign",
     "name", "tabs", "activeDefault", "today", "headline", "subhead",
     "theme", "energyScore", "bestHours", "label", "start", "end",
     "midweek", "weekend", "ratings", "love", "work", "money",
     "health", "lucky", "color", "number", "symbol", "doDont",
     "do", "dont", "sections", "dateLabel", "title", "body",
     "tone", "meaning", "note", "intention", "release", "cosmicWeather",
     "moon", "transits", "affectsToday", "compatibility", "bestFlowWith", "handleGentlyWith",
     "tips", "conflict", "affection", "journalRitual", "prompt", "starters",
     "mantra", "ritual", "bestDayForDecisions", "dayLabel", "reason", "week",
     "arc", "keyOpportunity", "keyCaution", "bestDayFor", "decisions", "conversations",
     "rest", "month", "keyDates", "newMoon", "fullMoon", "oneThing",
     "year", "quarters", "focus", "powerMonths", "challengeMonth", "guidance",
     "a", "b" >>

\* the characters of a property name
KeyText ==
  [ meta |-> <<"m","e","t","a">>,
    dateISO |-> <<"d","a","t","e","I","S","O">>,
    localeDateLabel |-> <<"l","o","c","a","l","e","D","a","t","e","L","a","b","e","l">>,
    generatedAtISO |-> <<"g","e","n","e","r","a","t","e","d","A","t","I","S","O">>,
    phase |-> <<"p","h","a","s","e">>,
    sign |-> <<"s","i","g","n">>,
    name |-> <<"n","a","m","e">>,
    tabs |-> <<"t","a","b","s">>,
    activeDefault |-> <<"a","c","t","i","v","e","D","e","f","a","u","l","t">>,
    today |-> <<"t","o","d","a","y">>,
    headline |-> <<"h","e","a","d","l","i","n","e">>,
    subhead |-> <<"s","u","b","h","e","a","d">>,
    theme |-> <<"t","h","e","m","e">>,
    energyScore |-> <<"e","n","e","r","g","y","S","c","o","r","e">>,
    bestHours |-> <<"b","e","s","t","H","o","u","r","s">>,
    label |-> <<"l","a","b","e","l">>,
    start |-> <<"s","t","a","r","t">>,
    end |-> <<"e","n","d">>,
    midweek |-> <<"m","i","d","w","e","e","k">>,
    weekend |-> <<"w","e","e","k","e","n","d">>,
    ratings |-> <<"r","a","t","i","n","g","s">>,
    love |-> <<"l","o","v","e">>,
    work |-> <<"w","o","r","k">>,
    money |-> <<"m","o","n","e","y">>,
    health |-> <<"h","e","a","l","t","h">>,
    lucky |-> <<"l","u","c","k","y">>,
    color |-> <<"c","o","l","o","r">>,
    number |-> <<"n","u","m","b","e","r">>,
    symbol |-> <<"s","y","m","b","o","l">>,
    doDont |-> <<"d","o","D","o","n","t">>,
    do |-> <<"d","o">>,
    dont |-> <<"d","o","n","t">>,
    sections |-> <<"s","e","c","t","i","o","n","s">>,
    dateLabel |-> <<"d","a","t","e","L","a","b","e","l">>,
    title |-> <<"t","i","t","l","e">>,
    body |-> <<"b","o","d","y">>,
    tone |-> <<"t","o","n","e">>,
    meaning |-> <<"m","e","a","n","i","n","g">>,
    note |-> <<"n","o","t","e">>,
    intention |-> <<"i","n","t","e","n","t","i","o","n">>,
    release |-> <<"r","e","l","e","a","s","e">>,
    cosmicWeather |-> <<"c","o","s","m","i","c","W","e","a","t","h","e","r">>,
    moon |-> <<"m","o","o","n">>,
    transits |-> <<"t","r","a","n","s","i","t","s">>,
    affectsToday |-> <<"a","f","f","e","c","t","s","T","o","d","a","y">>,
    compatibility |-> <<"c","o","m","p","a","t","i","b","i","l","i","t","y">>,
    bestFlowWith |-> <<"b","e","s","t","F","l","o","w","W","i","t","h">>,
    handleGentlyWith |-> <<"h","a","n","d","l","e","G","e","n","t","l","y","W","i","t","h">>,
    tips |-> <<"t","i","p","s">>,
    conflict |-> <<"c","o","n","f","l","i","c","t">>,
    affection |-> <<"a","f","f","e","c","t","i","o","n">>,
    journalRitual |-> <<"j","o","u","r","n","a","l","R","i","t","u","a","l">>,
    prompt |-> <<"p","r","o","m","p","t">>,
    starters |-> <<"s","t","a","r","t","e","r","s">>,
    mantra |-> <<"m","a","n","t","r","a">>,
    ritual |-> <<"r","i","t","u","a","l">>,
    bestDayForDecisions |-> <<"b","e","s","t","D","a","y","F","o","r","D","e","c","i","s","i","o","n","s">>,
    dayLabel |-> <<"d","a","y","L","a","b","e","l">>,
    reason |-> <<"r","e","a","s","o","n">>,
    week |-> <<"w","e","e","k">>,
    arc |-> <<"a","r","c">>,
    keyOpportunity |-> <<"k","e","y","O","p","p","o","r","t","u","n","i","t","y">>,
    keyCaution |-> <<"k","e","y","C","a","u","t","i","o","n">>,
    bestDayFor |-> <<"b","e","s","t","D","a","y","F","o","r">>,
    decisions |-> <<"d","e","c","i","s","i","o","n","s">>,
    conversations |-> <<"c","o","n","v","e","r","s","a","t","i","o","n","s">>,
    rest |-> <<"r","e","s","t">>,
    month |-> <<"m","o","n","t","h">>,
    keyDates |-> <<"k","e","y","D","a","t","e","s">>,
    newMoon |-> <<"n","e","w","M","o","o","n">>,
    fullMoon |-> <<"f","u","l","l","M","o","o","n">>,
    oneThing |-> <<"o","n","e","T","h","i","n","g">>,
    year |-> <<"y","e","a","r">>,
    quarters |-> <<"q","u","a","r","t","e","r","s">>,
    focus |-> <<"f","o","c","u","s">>,
    powerMonths |-> <<"p","o","w","e","r","M","o","n","t","h","s">>,
    challengeMonth |-> <<"c","h","a","l","l","e","n","g","e","M","o","n","t","h">>,
    guidance |-> <<"g","u","i","d","a","n","c","e">>,
    a |-> <<"a">>,
    b |-> <<"b">> ]

Dash == <<"-">>

\* the string hashSeed is given
seedText(profile, dateISO, sign) ==
  profile.name \o Dash \o dateISO \o Dash \o sign \o Dash \o profile.mood \o Dash
  \o profile.personality

\* [...].join(" ").trim()
message(draws, profile, sign) ==
  trim(pick(draws[2], openings(profile.mood)) \o <<" ">>
       \o pick(draws[3], middles(sign, profile.personality)) \o <<" ">>
       \o pick(draws[4], closers))

StrList(values) == Arr([k \in 1..Len(values) |-> Str(values[k])])

\* the properties of the payload that depend on the call, in the order in
\* which generate draws them
stubFields(profile, dateISO, label, now, sign, draws) ==
  << <<<<"meta", "dateISO">>, Str(dateISO)>>,
     <<<<"meta", "localeDateLabel">>, Str(label)>>,
     <<<<"meta", "generatedAtISO">>, Str(now)>>,
     <<<<"meta", "sign">>, Str(sign)>>,
     <<<<"meta", "name">>, Str(profile.name)>>,
     <<<<"today", "headline">>, Str(pick(draws[1], Titles))>>,
     <<<<"today", "subhead">>, Str(message(draws, profile, sign))>>,
     <<<<"today", "theme">>, Str(pick(draws[5], Themes))>>,
     <<<<"today", "energyScore">>, Num(floorTimes(draws[6], 45) + 55)>>,
     <<<<"today", "ratings", "love">>, Num(floorTimes(draws[7], 3) + 3)>>,
     <<<<"today", "ratings", "work">>, Num(floorTimes(draws[8], 3) + 3)>>,
     <<<<"today", "ratings", "money">>, Num(floorTimes(draws[9], 3) + 2)>>,
     <<<<"today", "ratings", "health">>, Num(floorTimes(draws[10], 3) + 3)>>,
     <<<<"today", "lucky", "color">>, Str(pick(draws[11], Colors))>>,
     <<<<"today", "lucky", "number">>, Num(floorTimes(draws[12], 9) + 1)>>,
     <<<<"today", "lucky", "symbol">>, Str(pick(draws[13], Symbols))>>,
     <<<<"cosmicWeather", "moon", "phase">>, Str(pick(draws[14], MoonPhases))>>,
     <<<<"cosmicWeather", "moon", "sign">>, Str(pick(draws[15], MoonSigns))>>,
     <<<<"compatibility", "bestFlowWith">>,
       StrList(sliceTwo(shuffle(draws[16], draws[17], draws[18], FlowSigns)))>>,
     <<<<"compatibility", "handleGentlyWith">>, StrList(<<pick(draws[19], GentleSigns)>>)>> >>

RECURSIVE SetFields(_, _, _)
SetFields(o, fields, n) ==
  IF n = 0 THEN o
  ELSE SetPath(SetFields(o, fields, n - 1), fields[n][1], fields[n][2])

\* the payload generate serializes: the fixed texts of StubPayload with the
\* properties that depend on the profile, the date, the clock and the draws
stubPayloadWith(fields) == SetFields(StubPayload, fields, Len(fields))

\* zodiacSign(birthdate), for the birthdates of the model
zodiacSign(birthdate) ==
  IF birthdate = <<"1","9","9","0","-","0","8","-","0","1">>
  THEN <<"L","e","o">>
  ELSE <<"C","a","p","r","i","c","o","r","n">>

\* new Date(dateISO).toLocaleDateString(undefined, {weekday, month, day}),
\* for the dates of the model in an English locale
toLocaleDateString(dateISO) ==
  IF dateISO = <<"2","0","2","4","-","0","5","-","0","1">>
  THEN <<"W","e","d","n","e","s","d","a","y",","," ","M","a","y"," ","1">>
  ELSE <<"T","h","u","r","s","d","a","y",","," ","M","a","y"," ","2">>

\* StubAdapter.generate, before JSON.stringify; now is new Date().toISOString()
stubPayload(profile, dateISO, now) ==
  stubPayloadWith(
    stubFields(profile, dateISO, toLocaleDateString(dateISO), now,
               zodiacSign(profile.birthdate),
               seeded(hashSeed(seedText(profile, dateISO, zodiacSign(profile.birthdate))), 19)))

(***************************************************************************)
(* JSON.stringify                                                          *)
(***************************************************************************)
RECURSIVE ConcatRange(_, _, _)
ConcatRange(parts, lo, hi) ==
  IF lo > hi THEN <<>>
  ELSE IF lo = hi THEN parts[lo]
  ELSE ConcatRange(parts, lo, (lo + hi) \div 2) \o ConcatRange(parts, ((lo + hi) \div 2) + 1, hi)

Concat(parts) == ConcatRange(parts, 1, Len(parts))

\* parts joined by commas
Joined(parts) ==
  Concat([k \in 1..Len(parts) |-> IF k = 1 THEN parts[k] ELSE <<",">> \o parts[k]])

\* the escape sequence JSON.stringify writes for a character of a string
EscapeChar(c) ==
  CASE c = QUOTE -> <<BACKSLASH, QUOTE>>
    [] c = BACKSLASH -> <<BACKSLASH, BACKSLASH>>
    [] c = "LF" -> <<BACKSLASH, "n">>
    [] c = "CR" -> <<BACKSLASH, "r">>
    [] c = "TAB" -> <<BACKSLASH, "t">>
    [] c = "BS" -> <<BACKSLASH, "b">>
    [] c = "FF" -> <<BACKSLASH, "f">>
    [] OTHER -> <<c>>

StringifyString(s) == Quoted(Concat([k \in 1..Len(s) |-> EscapeChar(s[k])]))

RECURSIVE DecimalDigits(_)
DecimalDigits(n) ==
  IF n < 10 THEN <<Digits[n + 1]>> ELSE Append(DecimalDigits(n \div 10), Digits[(n % 10) + 1])

\* a number in tenths, as JSON.stringify writes it
StringifyNumber(v) ==
  (IF v < 0 THEN <<"-">> ELSE <<>>)
  \o DecimalDigits((IF v < 0 THEN 0 - v ELSE v) \div 10)
  \o (IF v % 10 = 0 THEN <<>> ELSE <<".", Digits[((IF v < 0 THEN 0 - v ELSE v) % 10) + 1]>>)

\* the property names of an object that JSON.stringify writes, in order
WrittenKeys(o) == SelectSeq(KeyOrder, LAMBDA k : k \in DOMAIN o.v /\ o.v[k].t # "undef")

RECURSIVE JSONstringify(_)
JSONstringify(value) ==
  CASE value.t = "str" -> StringifyString(value.v)
    [] value.t = "num" -> StringifyNumber(value.v)
    [] value.t = "bool" -> IF value.v THEN <<"t","r","u","e">> ELSE <<"f","a","l","s","e">>
    [] value.t = "arr" ->
         Bracketed(Joined([k \in 1..Len(value.v) |->
                             IF value.v[k].t = "undef" THEN <<"n","u","l","l">>
                             ELSE JSONstringify(value.v[k])]))
    [] value.t = "obj" ->
         Braced(Joined([k \in 1..Len(WrittenKeys(value)) |->
                          Quoted(KeyText[WrittenKeys(value)[k]]) \o <<":">>
                          \o JSONstringify(value.v[WrittenKeys(value)[k]])]))
    [] OTHER -> <<"n","u","l","l">>

\* the property name of the model for the characters of a name JSON.parse
\* read; "?" for a name the payload does not have
KeyNamed(chars) ==
  IF \E k \in DOMAIN KeyText : KeyText[k] = chars
  THEN CHOOSE k \in DOMAIN KeyText : KeyText[k] = chars
  ELSE "?"

\* the value JSON.parse read, its objects as functions of property names
RECURSIVE Named(_)
Named(value) ==
  CASE value.t = "arr" -> Arr([k \in 1..Len(value.v) |-> Named(value.v[k])])
    [] value.t = "obj" ->
         Obj([k \in {KeyNamed(chars) : chars \in DOMAIN value.v} |->
                Named(value.v[CHOOSE chars \in DOMAIN value.v : KeyNamed(chars) = k])])
    [] OTHER -> value

\* deep equality of two values
RECURSIVE deepEqual(_, _)
deepEqual(a, b) ==
  /\ a.t = b.t
  /\ CASE a.t = "arr" ->
            /\ Len(a.v) = Len(b.v)
            /\ \A k \in 1..Len(a.v) : deepEqual(a.v[k], b.v[k])
       [] a.t = "obj" ->
            /\ DOMAIN a.v = DOMAIN b.v
            /\ \A k \in DOMAIN a.v : deepEqual(a.v[k], b.v[k])
       [] OTHER -> a.v = b.v


(***************************************************************************)
(* Calls of the stub generator, and its text on the way through            *)
(* sanitizeAndParseDashboardPayload.  stub is the profile and the date of  *)
(* the calls and, for each call made, the clock, the payload and the text. *)
(***************************************************************************)
MaxCalls == 2

S_AnaLi == <<"A","n","a","-","L","i">>
S_TwoLines == <<"D","'","A","r","c","LF","d","e">>
S_Serene == <<"S","e","r","e","n","e">>
S_OpenHearted == <<"O","p","e","n","-","h","e","a","r","t","e","d">>
S_TheDreamer == <<"T","h","e"," ","D","r","e","a","m","e","r">>
S_TheSage == <<"T","h","e"," ","S","a","g","e">>

\* profiles that profileSpec.validate accepts: letters, spaces, apostrophes,
\* hyphens and any white space, a line break included
Profiles ==
  {[name |-> name, birthdate |-> traits[1], mood |-> traits[2], personality |-> traits[3]] :
     name \in {S_Sean, S_AnaLi, S_TwoLines},
     traits \in {<<<<"1","9","9","0","-","0","8","-","0","1">>, S_Serene, S_TheDreamer>>,
                 <<<<"1","9","8","5","-","0","1","-","0","5">>, S_OpenHearted, S_TheSage>>}}

\* localDateISO()
Dates == {<<"2","0","2","4","-","0","5","-","0","1">>, <<"2","0","2","4","-","0","5","-","0","2">>}

\* new Date().toISOString() at successive instants
Clock ==
  << <<"2","0","2","4","-","0","5","-","0","1","T","0","9",":","0","0",":","0","0",".","0","0","0","Z">>,
     <<"2","0","2","4","-","0","5","-","0","1","T","0","9",":","0","0",":","0","0",".","0","0","1","Z">> >>

GStart ==
  /\ stub \in {[profile |-> profile, dateISO |-> dateISO, calls |-> <<>>] :
                 profile \in Profiles, dateISO \in Dates}
  /\ vtext = <<>>
  /\ cand = Null
  /\ vphase = "idle"
  /\ verror = Empty

CallAt(profile, dateISO, instant) ==
  [instant |-> instant,
   payload |-> stubPayload(profile, dateISO, Clock[instant]),
   text |-> JSONstringify(stubPayload(profile, dateISO, Clock[instant]))]

\* StubAdapter.generate(profile, dateISO) at an instant of the clock
Generate(instant) ==
  /\ vphase \in {"idle", "accepted"}
  /\ Len(stub.calls) < MaxCalls
  /\ stub.calls # <<>> => stub.calls[Len(stub.calls)].instant <= instant
  /\ stub' = [stub EXCEPT !.calls = Append(@, CallAt(stub.profile, stub.dateISO, instant))]
  /\ vtext' = stub'.calls[Len(stub'.calls)].text
  /\ cand' = Null
  /\ vphase' = "generated"
  /\ UNCHANGED <<verror, ovars, xvars>>

\* const { sanitized, info } = sanitizeDashboardPayload(json)
GSanitize ==
  /\ vphase = "generated"
  /\ cand' = sanitizeDashboardPayload(vtext)
  /\ vphase' = "sanitized"
  /\ UNCHANGED <<vtext, verror, stub, ovars, xvars>>

\* parsed = JSON.parse(sanitized), or the error result
GParse ==
  /\ vphase = "sanitized"
  /\ IF JSONparse(cand).ok
     THEN /\ cand' = Named(JSONparse(cand).value)
          /\ vphase' = "parsed"
          /\ verror' = verror
     ELSE /\ cand' = cand
          /\ vphase' = "rejected"
          /\ verror' = P_token
  /\ UNCHANGED <<vtext, stub, ovars, xvars>>

GNext ==
  \/ \E instant \in 1..Len(Clock) : Generate(instant)
  \/ GSanitize
  \/ GParse
  \/ VNormalize
  \/ VValidate

InitG == GStart /\ OIdle /\ XIdle

SpecG == InitG /\ [][GNext]_vars

(***************************************************************************)
(* Claims about the sanitizer                                              *)
(***************************************************************************)

\* C11: for every input x, sanitizing the sanitized text changes nothing:
\* sanitize(sanitize(x)) = sanitize(x).
C11_SanitizeIdempotent ==
  vphase = "braceFixed" => sanitizeDashboardPayload(cand) = cand

\* C12: for every well-formed JSON text x, whatever its string literals
\* hold, sanitize(sanitize(x)) = sanitize(x).
C12_WellFormedIdempotent ==
  vphase = "braceFixed" /\ JSONparse(vtext).ok => sanitizeDashboardPayload(cand) = cand

\* the value has the member, unless the later object gave the key again
HasMember(value, member, later) ==
  \/ member.key = <<>>
  \/ /\ member.key \in DOMAIN value.v
     /\ \/ member.key = later.key
        \/ /\ value.v[member.key].t = member.value.t
           /\ value.v[member.key].v = member.value.v

MergedObject(text, first, second) ==
  LET parsed == JSONparse(text)
  IN /\ parsed.ok
     /\ parsed.value.t = "obj"
     /\ HasMember(parsed.value, first, second)
     /\ HasMember(parsed.value, second, [key |-> <<>>])

\* C13: for an input of two objects at the root separated by a comma, the
\* sanitized text parses as one object that has the members of both.
C13_RootObjectsMerged ==
  vphase = "braceFixed" =>
    \A first \in RootObjects, sep \in Separators, second \in RootObjects :
      vtext = TwoRootObjects(first, sep, second) => MergedObject(cand, first, second)

\* the contents of the string literals of a text, in order; an unclosed
\* literal at the end counts with what it has
RECURSIVE StringLiteralsFrom(_, _, _, _, _, _)
StringLiteralsFrom(text, i, inString, escaped, current, literals) ==
  IF i > Len(text) THEN IF inString THEN Append(literals, current) ELSE literals
  ELSE IF inString
       THEN IF StillInString(escaped, text[i])
            THEN StringLiteralsFrom(text, i + 1, TRUE, NowEscaped(escaped, text[i]),
                                    Append(current, text[i]), literals)
            ELSE StringLiteralsFrom(text, i + 1, FALSE, FALSE, <<>>, Append(literals, current))
       ELSE StringLiteralsFrom(text, i + 1, text[i] = QUOTE, FALSE, <<>>, literals)

StringLiterals(text) == StringLiteralsFrom(text, 1, FALSE, FALSE, <<>>, <<>>)

IsJsonObjectText(text) == JSONparse(text).ok /\ JSONparse(text).value.t = "obj"

\* C14: when the raw text is a JSON object, no step of the sanitizer changes
\* its string literals: the text after a step has the literals of the text
\* before it, character for character.
C14_LiteralsUntouched ==
  [][IsJsonObjectText(vtext) => StringLiterals(cand') = StringLiterals(cand)]_vars

\* C15: the extracted text is the first balanced {...} span of the text
\* without fences, the text after it discarded; only when there is no such
\* span is it the slice from the first { to the last }.
C15_FirstBalancedSpan ==
  vphase = "extractedJson" =>
    cand = IF extractFirstJsonObject(noFencesOf(vtext)).found
           THEN extractFirstJsonObject(noFencesOf(vtext)).span
           ELSE SliceOrText(extractJsonSlice(noFencesOf(vtext)), noFencesOf(vtext))

\* where the text stands after each character: outside a string ("out"),
\* inside one ("in"), or inside one after a backslash ("esc")
StandingAfter(before, ch) ==
  IF before = "out" THEN (IF ch = QUOTE THEN "in" ELSE "out")
  ELSE IF before = "esc" THEN "in"
  ELSE IF ch = BACKSLASH THEN "esc"
  ELSE IF ch = QUOTE THEN "out" ELSE "in"

\* the standing before each character, and after the last one
RECURSIVE StandingsFrom(_, _)
StandingsFrom(text, standings) ==
  IF Len(standings) > Len(text) THEN standings
  ELSE StandingsFrom(text, Append(standings,
                       StandingAfter(standings[Len(standings)], text[Len(standings)])))

Standing(text) == StandingsFrom(text, <<"out">>)

CountOutsideIn(text, standings, c) ==
  Cardinality({i \in 1..Len(text) : text[i] = c /\ standings[i] = "out"})

CountOutside(text, c) == CountOutsideIn(text, Standing(text), c)

OutsideDepth(text) == CountOutside(text, "{") - CountOutside(text, "}")
EndsInString(text) == Standing(text)[Len(text) + 1] # "out"

\* C16: the last step appends exactly one closing brace when the text ends
\* outside a string with more { than } outside strings, and nothing when
\* the depth is zero or negative or the text ends inside an open string.
C16_OneBraceAppended ==
  [][vphase = "unwrapped" =>
       cand' = IF OutsideDepth(cand) > 0 /\ ~EndsInString(cand)
               THEN Append(cand, "}")
               ELSE cand]_vars

\* a text two or more braces short got one brace
C16_Witness ==
  /\ vphase = "braceFixed"
  /\ OutsideDepth(unwrappedOf(vtext)) >= 2
  /\ ~EndsInString(unwrappedOf(vtext))
  /\ cand = Append(unwrappedOf(vtext), "}")

\* a text that ends inside an open string, braces open, got nothing
C16_OpenStringLeftAlone ==
  /\ vphase = "braceFixed"
  /\ OutsideDepth(unwrappedOf(vtext)) > 0
  /\ EndsInString(unwrappedOf(vtext))
  /\ cand = unwrappedOf(vtext)

(***************************************************************************)
(* Claims about the stub generator                                         *)
(***************************************************************************)

\* C17: two calls of the stub generator with the same profile and the same
\* date return the same text, character for character, whenever they are made.
C17_SameTextEveryCall ==
  Len(stub.calls) = 2 => stub.calls[1].text = stub.calls[2].text

\* C18: the text of the stub generator passes the sanitizer, JSON.parse, the
\* normalizer and the validator, and the accepted payload deep-equals the
\* payload the generator serialized.
C18_StubRoundTrip ==
  /\ vphase # "rejected"
  /\ vphase = "accepted" => deepEqual(cand, stub.calls[Len(stub.calls)].payload)

\* a text of the generator was accepted, for a name with a hyphen in it
C18_Witness ==
  /\ vphase = "accepted"
  /\ stub.profile.name = S_AnaLi
  /\ stub.calls[Len(stub.calls)].text # <<>>
  /\ cand.t = "obj"

(***************************************************************************)
(* Claims about the sampling parameters                                    *)
(***************************************************************************)
Requested(t) == t.context.seed # Null
Stored(t) == t.pc \in {"fulfilled", "rejected"} /\ t.generated

\* C19: the seed of a request is the hash of (date, name, birthdate) plus the
\* number of payloads stored for the date, and the requests that generated a
\* reading for one date and profile had pairwise distinct seeds, whatever
\* Undo or Reset came between them.
C19_SeedsDistinct ==
  \A i, j \in DOMAIN tasks :
    (i < j /\ Stored(tasks[i]) /\ Stored(tasks[j]) /\ Requested(tasks[j]))
      => tasks[i].context.seed # tasks[j].context.seed

\* C20: when a text is rejected for truncation, the call that follows is made
\* with the regenerate prompt, with more maxTokens than the call whose text was
\* rejected, and with a temperature that is not higher.
C20_TruncationEscalates ==
  \A i \in DOMAIN tasks :
    tasks[i].truncation =>
      /\ tasks[i].prompt = "regenerate"
      /\ tasks[i].sampling.maxTokens > tasks[i].rejected.maxTokens
      /\ tasks[i].sampling.temperature <= tasks[i].rejected.temperature

\* C21: when a text is rejected as syntax-like and not for truncation, the call
\* that follows is made with the repair prompt and with the sampling
\* parameters of the call whose text was rejected.
C21_RepairKeepsSampling ==
  \A i \in DOMAIN tasks :
    (tasks[i].prompt = "repair" /\ ~tasks[i].truncation)
      => tasks[i].sampling = tasks[i].rejected

(***************************************************************************)
(* Claims about the fallback and the retry budget                          *)
(***************************************************************************)

\* C24: a request invokes the backend at most once more after the initial
\* invocation, and it uses the fallback generator only when every text the
\* backend returned was parsed and rejected.
C24_InitialPlusOneRetry ==
  \A i \in DOMAIN tasks :
    /\ tasks[i].invocations <= 2
    /\ (tasks[i].pc = "ended" /\ tasks[i].result = "fallback") => tasks[i].unusable

(***************************************************************************)
(* Claims about the placeholders of the prompt template                    *)
(***************************************************************************)
\* the numeric fields of buildDashboardTemplate, which it fills with -1
TemplateNumbers ==
  {<<"today", "energyScore">>, <<"today", "ratings", "love">>,
   <<"today", "ratings", "work">>, <<"today", "ratings", "money">>,
   <<"today", "ratings", "health">>, <<"today", "lucky", "number">>}

RECURSIVE GetPath(_, _)
GetPath(o, path) == IF path = <<>> THEN o ELSE GetPath(Get(o, Head(path)), Tail(path))

holdsNumericSentinel(value) == \E path \in TemplateNumbers : GetPath(value, path) = Num(-1)

\* C25: a candidate with a string that contains __FILL, or with a numeric
\* field of the template still at -1, is never accepted.
C25_SentinelsRejected ==
  vphase = "accepted" =>
    ~(containsUnresolvedPlaceholders(vtext.value) \/ holdsNumericSentinel(vtext.value))

(***************************************************************************)
(* EmbeddedModelAdapter.generate: the invoke of the backend raced against  *)
(* a timer of 180 s.                                                       *)
(***************************************************************************)
MaxRaces == 2   \* calls of EmbeddedModelAdapter.generate in one behaviour

\* One call: the promise of invoke("generate_dashboard_payload") with the
\* text it resolved with, the timer of window.setTimeout, and the promise of
\* Promise.race with the value it settled with.
NewRace ==
  [invoke |-> "pending", text |-> "none", timer |-> "armed",
   race |-> "pending", value |-> "none"]

\* A race that follows the promise settled last: used to show what
\* Promise.race gives.
settleLast(r, outcome, value) == [r EXCEPT !.race = outcome, !.value = value]

\* Promise.race: the promise that settles first settles the race; a promise
\* that settles later leaves it as it is
settleRace(r, outcome, value) ==
  IF r.race = "pending" THEN [r EXCEPT !.race = outcome, !.value = value] ELSE r

\* EmbeddedModelAdapter.generate is called
AGenerate ==
  /\ Len(races) < MaxRaces
  /\ races' = Append(races, NewRace)
  /\ UNCHANGED <<vvars, ovars, subscriptions, pass>>

\* the backend answers: invoke resolves with a text
AInvokeResolves(k, text) ==
  /\ races[k].invoke = "pending"
  /\ races' = [races EXCEPT ![k] = settleRace([@ EXCEPT !.invoke = "resolved", !.text = text],
                                              "resolved", text)]
  /\ UNCHANGED <<vvars, ovars, subscriptions, pass>>

\* the backend fails: invoke rejects
AInvokeRejects(k) ==
  /\ races[k].invoke = "pending"
  /\ races' = [races EXCEPT ![k] = settleRace([@ EXCEPT !.invoke = "rejected"],
                                              "rejected", "backendError")]
  /\ UNCHANGED <<vvars, ovars, subscriptions, pass>>

\* the timer fires: reject(new Error("Model generation timed out after 180s."))
ATimerFires(k) ==
  /\ races[k].timer = "armed"
  /\ races' = [races EXCEPT ![k] = settleRace([@ EXCEPT !.timer = "fired"],
                                              "rejected", "timeoutError")]
  /\ UNCHANGED <<vvars, ovars, subscriptions, pass>>

TimerSettles == \E k \in DOMAIN races : ATimerFires(k)

ANext ==
  \/ AGenerate
  \/ \E k \in DOMAIN races, text \in BackendTexts : AInvokeResolves(k, text)
  \/ \E k \in DOMAIN races : AInvokeRejects(k)
  \/ \E k \in DOMAIN races : ATimerFires(k)

InitA == VIdle /\ OIdle /\ RacesIdle /\ StoreIdle

\* a timer that is armed fires; the backend may never answer
SpecA == InitA /\ [][ANext]_vars /\ WF_vars(TimerSettles)

\* what the race settled with is what came first
RaceOutcome(r) ==
  /\ r.race = "resolved" => (r.invoke = "resolved" /\ r.value = r.text)
  /\ r.race = "rejected" => r.value \in {"timeoutError", "backendError"}
  /\ r.value = "timeoutError" => (r.race = "rejected" /\ r.timer = "fired")
  /\ r.value = "backendError" => (r.race = "rejected" /\ r.invoke = "rejected")
  /\ r.race = "pending" => (r.invoke = "pending" /\ r.timer = "armed")

RacePending(k) == k \in DOMAIN races /\ races[k].race = "pending"
RaceSettled(k) == k \in DOMAIN races /\ races[k].race # "pending"

\* C23: every call of the adapter settles; it resolves with the backend's
\* text when the invoke resolved first, rejects with the timeout error when
\* the timer fired first and with the backend's error when the invoke rejected
\* first; a timer, or a backend, that comes after the race has settled
\* changes nothing of its result.
C23_RaceSettles ==
  /\ \A k \in 1..MaxRaces : RacePending(k) ~> RaceSettled(k)
  /\ [](\A k \in DOMAIN races : RaceOutcome(races[k]))
  /\ [][\A k \in DOMAIN races :
          races[k].race # "pending" =>
            (races'[k].race = races[k].race /\ races'[k].value = races[k].value)]_vars

\* the backend answered, the timer fired afterwards, and the call resolved
\* with the backend's text
C23_Witness ==
  \E k \in DOMAIN races :
    /\ races[k].invoke = "resolved"
    /\ races[k].timer = "fired"
    /\ races[k].race = "resolved"
    /\ races[k].value = "valid"

(***************************************************************************)
(* Claims about the commands and the store                                 *)
(***************************************************************************)
\* the task has applied ReadingGenerationStarted and not yet ReadingGenerated
\* or ReadingGenerationFailed
Executing(t) == t.started /\ t.pc \notin {"queued", "fulfilled", "rejected"}

\* C26: busyFlags.generating is true exactly when a task is between its
\* ReadingGenerationStarted and its ReadingGenerated or
\* ReadingGenerationFailed (here: as long as the storage takes every save).
C26_GeneratingIffExecuting ==
  storage = "ok" => (state.generating <=> \E i \in DOMAIN tasks : Executing(tasks[i]))

\* the reading of the most recent successful generation is the current one
LatestIsCurrent ==
  /\ state.current # 0
  /\ \A i \in DOMAIN tasks : tasks[i].generated => i <= state.current

\* C27: an Undo made while the most recent generation's reading is the
\* current one takes back that generation and no other: the reading that was
\* current before it is current again, and the history is what it was.
C27_UndoRevertsOneGeneration ==
  [][(undoStack # <<>> /\ undoStack' = Tail(undoStack) /\ LatestIsCurrent)
       => /\ state'.current = (IF state.history = <<>> THEN 0 ELSE Head(state.history))
          /\ state'.history = (IF state.history = <<>> THEN <<>> ELSE Tail(state.history))]_vars

\* C28: model.status and busyFlags.loadingModel change only in a step of the
\* model loader (ModelStatusChanged): no Undo and no Reset changes them.
C28_OnlyLoaderChangesStatus ==
  [][(state'.status # state.status \/ state'.loadingModel # state.loadingModel)
       => loader' # loader]_vars

(***************************************************************************)
(* createStore: applyEvents and subscribe, with the listeners the          *)
(* application gives it: the render listeners, which stay subscribed, and  *)
(* the listener of waitForModelReady, which unsubscribes itself.           *)
(***************************************************************************)
MaxSubs == 3   \* calls of subscribe in one behaviour

\* the selectors (state) => state.model.status and
\* (state) => state.ui.busyFlags.generating; the flag is written as a string
select(selector, s) ==
  IF selector = "status" THEN s.status
  ELSE IF s.generating THEN "true" ELSE "false"

\* Object.is on the selected values
equalityFn(a, b) == a = b

\* subscriptions.splice(subscriptions.indexOf(subscription), 1)
unsubscribe(subs, id) == SelectSeq(subs, LAMBDA sub : sub.id # id)

\* the listener is called with (next, previous): the one of waitForModelReady
\* unsubscribes itself on loaded or error, a render listener leaves the
\* subscriptions alone
listener(subs, sub, next) ==
  IF sub.listener = "waitForModelReady" /\ next \in Ready
  THEN unsubscribe(subs, sub.id)
  ELSE subs

\* subscriptions.forEach(...) of applyEvents from index k on.  len is the
\* length of the array when forEach was called; forEach visits the indices
\* below len that the array still has, in order.
RECURSIVE forEach(_, _, _, _, _)
forEach(k, len, subs, notified, s) ==
  IF k > len \/ k > Len(subs)
  THEN [subscriptions |-> subs, notified |-> notified]
  ELSE LET nextSelected == select(subs[k].selector, s)
           prevSelected == subs[k].lastValue
       IN IF equalityFn(nextSelected, prevSelected)
          THEN forEach(k + 1, len, subs, notified, s)
          ELSE forEach(k + 1, len,
                       listener([subs EXCEPT ![k].lastValue = nextSelected], subs[k], nextSelected),
                       Append(notified, [id |-> subs[k].id, value |-> nextSelected,
                                         previous |-> prevSelected]),
                       s)

\* the batches of events the application applies
Batches ==
  {<<[type |-> "ModelStatusChanged", status |-> status]>> : status \in {"loading", "loaded", "error"}}
    \cup {<<[type |-> "ReadingGenerationStarted"], [type |-> "RouteChanged", route |-> "reading"]>>,
          <<[type |-> "ReadingGenerationFailed"]>>,
          <<[type |-> "ProfileValidated"], [type |-> "ProfileSaved"],
            [type |-> "RouteChanged", route |-> "reading"]>>}

\* store.subscribe(selector, listener); waitForModelReady subscribes only
\* when the status is neither loaded nor error
SSubscribe(selector, kind) ==
  /\ pass.made < MaxSubs
  /\ kind = "waitForModelReady" => (selector = "status" /\ state.status \notin Ready)
  /\ subscriptions' = Append(subscriptions,
                             [id |-> pass.made + 1, selector |-> selector, listener |-> kind,
                              lastValue |-> select(selector, state)])
  /\ pass' = [pass EXCEPT !.made = @ + 1]
  /\ UNCHANGED <<vvars, ovars, races>>

\* store.applyEvents(events).  A ModelStatusChanged of the batch carries a
\* status other than the current one.
SApplyEvents(events) ==
  /\ \A i \in DOMAIN events :
        events[i].type = "ModelStatusChanged" => events[i].status # state.status
  /\ LET next == reduceAll(state, events)
         done == forEach(1, Len(subscriptions), subscriptions, <<>>, next)
     IN /\ state' = next
        /\ subscriptions' = done.subscriptions
        /\ pass' = [pass EXCEPT !.before = subscriptions, !.notified = done.notified]
  /\ UNCHANGED <<vvars, tauri, undoStack, tasks, calls, loader, storage, races>>

SubNext ==
  \/ \E selector \in {"status", "generating"}, kind \in {"render", "waitForModelReady"} :
        SSubscribe(selector, kind)
  \/ \E events \in Batches : SApplyEvents(events)

InitSub == VIdle /\ OIdle /\ RacesIdle /\ StoreIdle

SpecSub == InitSub /\ [][SubNext]_vars

\* the calls the last applyEvents made of the listener of subscription id
NotifiedTo(id) == SelectSeq(pass.notified, LAMBDA n : n.id = id)

\* C29: after applyEvents every subscription that was subscribed when it was
\* called has been notified once, with the new and the previous selected
\* value, if its selected value changed, and not at all if it did not.
C29_EachNotifiedOnce ==
  \A j \in DOMAIN pass.before :
    LET sub == pass.before[j]
        now == select(sub.selector, state)
    IN NotifiedTo(sub.id) =
         IF equalityFn(now, sub.lastValue) THEN <<>>
         ELSE <<[id |-> sub.id, value |-> now, previous |-> sub.lastValue]>>

(***************************************************************************)
(* The caps of reading.history, ui.toasts and the undo stack: the commands *)
(* on states that have reached the caps.  Readings are numbered in the     *)
(* order of their generation.                                              *)
(***************************************************************************)
MaxReadings == 13   \* readings generated in one behaviour, the earlier ones included

\* the state after m generations in a row, with n toasts shown
StateAfter(m, n) ==
  [status |-> "loaded", loadingModel |-> FALSE, saved |-> TRUE,
   current |-> m,
   history |-> [i \in 1..Min(Max(m - 1, 0), HistoryCap) |-> m - i],
   generating |-> FALSE,
   toasts |-> [i \in 1..n |-> "earlier"]]

\* the undo stack after m generations in a row
StackAfter(m, n) == [i \in 1..Min(m, UndoCap) |-> StateAfter(m - i, n)]

CapsInit ==
  \E m \in {0, 1, HistoryCap, HistoryCap + 1, HistoryCap + 2}, n \in 0..ToastCap :
    /\ state = StateAfter(m, n)
    /\ undoStack = StackAfter(m, n)
    /\ tauri = FALSE
    /\ tasks = <<>>
    /\ calls = {}
    /\ loader = "settled"
    /\ storage = "ok"

\* the task of a GenerateReading, settled
TaskDone(ok) ==
  [NewTask(getDefaultState) EXCEPT !.pc = "fulfilled", !.started = TRUE,
                                   !.generated = ok, !.failed = ~ok]

\* GenerateReading whose task runs to ReadingGenerated before the next command
CapGenerate ==
  /\ state.saved
  /\ Len(tasks) < MaxRequests
  /\ state.current < MaxReadings
  /\ tasks' = Append(tasks, TaskDone(TRUE))
  /\ undoStack' = pushUndo(undoStack, state)
  /\ state' = reduceAll(state, <<[type |-> "ReadingGenerationStarted"],
                                 [type |-> "RouteChanged", route |-> "reading"],
                                 [type |-> "ReadingGenerated", reading |-> state.current + 1]>>)
  /\ UNCHANGED <<tauri, calls, loader, storage, vvars, xvars>>

\* GenerateReading whose task ends in the catch
CapFail ==
  /\ state.saved
  /\ Len(tasks) < MaxRequests
  /\ tasks' = Append(tasks, TaskDone(FALSE))
  /\ state' = reduceAll(state, <<[type |-> "ReadingGenerationStarted"],
                                 [type |-> "RouteChanged", route |-> "reading"],
                                 [type |-> "ReadingGenerationFailed", error |-> "failed"]>>)
  /\ UNCHANGED <<tauri, undoStack, calls, loader, storage, vvars, xvars>>

\* GenerateReading without a saved profile
CapRefuse ==
  /\ ~state.saved
  /\ state' = reduceAll(state, <<[type |-> "ReadingGenerationFailed", error |-> "no profile"]>>)
  /\ UNCHANGED <<tauri, undoStack, tasks, calls, loader, storage, vvars, xvars>>

\* SubmitProfile with a valid profile, up to the GenerateReading it goes on to
CapSubmit ==
  /\ ~state.saved
  /\ state' = reduceAll(state, <<[type |-> "ProfileValidated"], [type |-> "ProfileSaved"],
                                 [type |-> "RouteChanged", route |-> "reading"]>>)
  /\ UNCHANGED <<tauri, undoStack, tasks, calls, loader, storage, vvars, xvars>>

CapReset ==
  /\ state' = reduceAll(state, <<[type |-> "StateRehydrated", state |-> defaultResetState(state)]>>)
  /\ UNCHANGED <<tauri, undoStack, tasks, calls, loader, storage, vvars, xvars>>

CapUndo ==
  /\ undoStack # <<>>
  /\ undoStack' = Tail(undoStack)
  /\ state' = reduceAll(state, <<[type |-> "StateRehydrated", state |-> Head(undoStack)]>>)
  /\ UNCHANGED <<tauri, tasks, calls, loader, storage, vvars, xvars>>

CapsNext == CapGenerate \/ CapFail \/ CapRefuse \/ CapSubmit \/ CapReset \/ CapUndo

InitCaps == CapsInit /\ VIdle /\ XIdle

SpecCaps == InitCaps /\ [][CapsNext]_vars

\* C30: reading.history never has more than 10 entries, ui.toasts never more
\* than 3, the undo stack never more than 10.
C30_CapsKept ==
  /\ Len(state.history) <= HistoryCap
  /\ Len(state.toasts) <= ToastCap
  /\ Len(undoStack) <= UndoCap

\* a reading was generated and a toast shown with history, toasts and undo
\* stack full: all three are still at their caps, with the new entries in
C30_Witness ==
  /\ state.current = MaxReadings
  /\ Len(state.history) = HistoryCap /\ Head(state.history) = MaxReadings - 1
  /\ Len(undoStack) = UndoCap /\ Head(undoStack).current = MaxReadings - 1
  /\ Len(state.toasts) = ToastCap /\ state.toasts[ToastCap] = "failed"
  /\ state.toasts[1] = "earlier"

====
